---- MODULE Spec2Model ----
(***************************************************************************)
(* A model of the stdchat service runtime (package service and the dummy   *)
(* session implementation).  The registry (service.Service) is called by   *)
(* several goroutines at once; every goroutine is a process of the model   *)
(* that executes one registry operation at a time, one shared-memory       *)
(* access (mutex section, atomic operation, call into a session) per step. *)
(***************************************************************************)
EXTENDS Integers, Sequences, FiniteSets, TLC

\* ------------------------------------------------------------------ bounds
MaxProcs == 2       \* goroutines calling the registry concurrently
MaxClients == 2     \* session objects that can be alive at the same time
MaxArgs == 3        \* longest argument list of a command message
MaxCount == 2       \* the history counters saturate here
MaxAccepts == 2     \* connections the provider accepts over its life

Procs == 1..MaxProcs
Clients == 1..MaxClients
NoClient == 0       \* the nil Networker
\* The process whose last call stays on record after it returned.  The other
\* processes run the same code; what they did is forgotten when they return.
Observed == {1}

NetIDs == {"n1", "n2"}          \* network identities a generic session reports
ConnIDs == {"", "k1"}           \* connection identities ("" = connectionless)
\* The generic constructor builds a session for remote that reports remote as
\* its network identity; the one for "n1" has a connection, the other has none.
ConnOf(remote) == IF remote = "n1" THEN "k1" ELSE ""
Commands == {"login", "logout", "ping", "other"}

VARIABLES
    impl,       \* the Networker implementation behind newClient: "generic" | "dummy"
    clients,    \* Service.clients, in slice order
    closed,     \* Service.closed (atomic int32: 0 or 1)
    done,       \* TRUE once the channel Service.done is closed
    mxOwner,    \* the process holding Service.mx exclusively across steps, or 0
    sess,       \* per session object: lifecycle state, NetworkID(), ConnID()
    started,    \* the sessions whose Start has returned nil
    loc,        \* per process, the call it executes or executed last:
                \*   pc    position in the operation ("idle": returned)
                \*   op    the operation and its arguments
                \*   res   what it returned
                \*   cur   the session it works on
                \*   snap  the rest of the GetClients() snapshot being ranged over
                \*   calls the session methods it has invoked
                \*   pubs  what it has published on Service.tp
                \*   late  the closed flag was set before the call (Login only)
    nShutdown,  \* history: how many Close calls have won the compare-and-swap
    doneCloses  \* history: how many times close(svc.done) has been executed

\* The provider (package provider) in front of the registry.
VARIABLES
    opts,             \* provider.opts: Password, AutoPassword, AutoExit, MaxConns
    password,         \* provider.password
    passwordDisabled, \* provider.passwordDisabled
    srvMaxConns,      \* Server.MaxConns (-1: no new connections)
    srvClosed,        \* TRUE once srv.Close() was called
    cinfo,            \* per connection, its clientInfo and what its Handler is doing:
                      \*   st      "none" (not accepted yet) | "open" | "closed"
                      \*   authed  clientInfo.authed
                      \*   pc      position of Handler ("idle": no request in hand)
                      \*   msg     the request data in hand
                      \*   priv    what was published on clientInfo.tp for the request
                      \*           (kept after the request for the observed connection)
                      \*   skipped history: the connection was admitted by the skip path
                      \*   nreq    history: requests with data received on the connection
                      \*   ndisp   history: requests passed to service.DispatchMsg
                      \*           (counted for the observed connection)
    transports,       \* MultiTransport.transports, in slice order
    delivered,        \* history: the connections the fan-out has delivered an event to
    nSkips,           \* history: how often PasswordCheckSkip returned true
    firstAuth         \* history: the credential of the first successful PasswordCheck

\* The callers of a MultiTransport used on its own (package service).
VARIABLES
    pub,        \* the goroutine calling MultiTransport.Publish:
                \*   pc    "idle" | "loop" (holds tp.mx for reading) | "blocked"
                \*         (inside a sink's Publish that does not return) | "done"
                \*   i     the index the range loop is at
                \*   calls the sinks whose Publish it has called, in call order
                \*   outs  what those calls returned ("ok" or the error text)
                \*   mec   the multiTpErrorCollector
                \*   res   what Publish returned
    mut,        \* the goroutine calling AddTransport / RemoveTransport:
                \*   pc    "idle" | "wait" (for tp.mx.Lock)
                \*   op    "add" | "remove",  tx  the sink passed
    removed     \* history: the sinks passed to RemoveTransport and not added since

\* A caller of EncodeMsg and ParseBaseMsg (package stdchat).
VARIABLES
    codec       \*   pc   "idle" | "encoded" | "parsed"
                \*   msg  the message value given to EncodeMsg
                \*   raw  the bytes given to ParseBaseMsg: malformed, or a JSON object
                \*   out  what ParseBaseMsg returned: the message and the error text

\* A caller of stdchat.IsType, and the process-wide state of service.MakeID.
VARIABLES
    call,       \* the last IsType call: msgType, part and what it returned
    mk          \*   pc      "load" (package not initialised) | "run"
                \*   xorID   the package variable xorID
                \*   prevID  the package variable prevID (uint32, as its 4 bytes)
                \*   now     time.Now().Unix() as the 4 bytes of its uint32 value
                \*   made    the calls whose result is kept: reqID, returned string,
                \*           and the number of the call
                \*   n       the number of MakeID calls made so far
                \*   skips, ticks  history counters

\* A WebServer (package service) and the goroutine its ServeURL starts.
VARIABLES
    ws          \*   BindAddr, PublicURL   the exported fields
                \*   handlers  ws.mux.handlers: the set of [hpath, handler]
                \*   srv       ws.srv: "zero" (http.Server{}) | "set" (Handler = ws)
                \*             | "shut" (Close was called on it)
                \*   lis       the listener made by net.Listen: "none" (closed or never
                \*             made) | "bound" (open, the goroutine has not called
                \*             Serve yet) | "serving" (Serve runs on it)
                \*   pc        "idle" | "zero" (ws.mx held, before ws.srv = http.Server{})
                \*   op        the last call: its name and path
                \*   res       what the last ServeURL returned
                \*   found     what the last FindHandler returned (0: nil)
                \*   failed    history: some ServeURL returned an error

libVars == <<pub, mut, removed, codec, call, mk, ws>>

\* the provider's state, and the library state it leaves alone
provVars == <<opts, password, passwordDisabled, srvMaxConns, srvClosed, cinfo,
              transports, delivered, nSkips, firstAuth, libVars>>

vars == <<impl, clients, closed, done, mxOwner, sess, started, loc, nShutdown, doneCloses,
          opts, password, passwordDisabled, srvMaxConns, srvClosed, cinfo,
          transports, delivered, nSkips, firstAuth, pub, mut, removed, codec, call, mk, ws>>

\* the variables of the registry, the provider, the codec and MultiTransport
coreVars == <<impl, clients, closed, done, mxOwner, sess, started, loc, nShutdown,
              doneCloses, opts, password, passwordDisabled, srvMaxConns, srvClosed,
              cinfo, transports, delivered, nSkips, firstAuth, pub, mut, removed, codec>>

svcVars == <<clients, closed, done, mxOwner, nShutdown, doneCloses>>

\* ------------------------------------------------------------- sessions
FreeSess == [st |-> "free", net |-> "", conn |-> ""]

NetworkID(c) == sess[c].net
ConnID(c) == sess[c].conn
\* Networker.Closed() and the firing of Networker.Context().Done()
ClientClosed(c) == sess[c].st = "closed"

Min(S) == CHOOSE x \in S : \A y \in S : x <= y
SetOf(s) == {s[i] : i \in 1..Len(s)}
Bump(n) == IF n < MaxCount THEN n + 1 ELSE n

\* The session state after Close() / Logout(reason) returned nil.  A generic
\* session starts closing and completes later (SessionDone); the dummy session
\* cancels its context inside Close().
AfterCloseDummy(s) == [s EXCEPT !.st = "closed"]
AfterCloseGeneric(s) == IF s.st = "new" THEN [s EXCEPT !.st = "closing"] ELSE s
AfterClose(s) == IF impl = "dummy" THEN AfterCloseDummy(s) ELSE AfterCloseGeneric(s)

\* The errors a session method can return ("" = nil).  The dummy session's
\* Start, Close and Logout always return nil.
SessErrs(e) == IF impl = "dummy" THEN {""} ELSE {"", e}

\* The network identities the sessions of the implementation can report, the
\* targets a Logout is tried with and the messages CmdHandler is tried with.
KnownNetIDs == IF impl = "dummy" THEN {"dummy"} ELSE NetIDs
Targets == KnownNetIDs \cup ConnIDs
ArgVals == IF impl = "dummy" THEN {"dummy"} ELSE {"n1"}
ArgSeqs == {<<>>} \cup {[i \in 1..n |-> a] : n \in 1..MaxArgs, a \in ArgVals}
\* A command for a session is forwarded whatever its arguments: it is tried
\* with the longest argument list, with which it could run as a registry command.
CmdMsgs == {m \in [name : {"CmdHandler"}, type : {"cmd"}, net : {""} \cup KnownNetIDs,
                   cmd : Commands, args : ArgSeqs] : m.net # "" => Len(m.args) = MaxArgs}
\* The chat messages Handler is tried with: with and without a type, with and
\* without a network identity.
ChatMsgs == [name : {"Handler"}, type : {"", "msg"}, net : {""} \cup KnownNetIDs,
             cmd : {""}, args : {<<>>}]

\* ------------------------------------------------------- registry helpers
\* Service.Closed(): atomic.LoadInt32(&svc.closed) != 0
\* (a registry that never reads its flag as set)
ServiceClosedNever == FALSE
ServiceClosed == closed # 0

GetClientByNetwork(networkID) ==
    LET I == {i \in 1..Len(clients) : NetworkID(clients[i]) = networkID}
    IN  IF I = {} THEN NoClient ELSE clients[Min(I)]

\* (a lookup by network identity alone)
findLogoutIDByNetwork(logoutID) ==
    LET I == {i \in 1..Len(clients) : NetworkID(clients[i]) = logoutID}
    IN  IF I = {} THEN NoClient ELSE clients[Min(I)]

findLogoutID(logoutID) ==
    LET I == {i \in 1..Len(clients) :
                NetworkID(clients[i]) = logoutID \/ ConnID(clients[i]) = logoutID}
    IN  IF I = {} THEN NoClient ELSE clients[Min(I)]

\* (an addClient without the duplicate test)
NetworkIDInUseNever(client) == FALSE

\* The loop of addClient: its loop variable is named client and shadows the
\* parameter, so each registered session is compared with itself.
NetworkIDInUse(client) ==
    \E i \in 1..Len(clients) : NetworkID(clients[i]) = NetworkID(clients[i])

\* The slice after removeClient(client): the first occurrence is overwritten by
\* the last element and the slice is shortened by one.
removeClient(cs, client) ==
    LET I == {i \in 1..Len(cs) : cs[i] = client}
    IN  IF I = {} THEN cs
        ELSE LET i == Min(I)
                 ilast == Len(cs)
             IN  SubSeq([cs EXCEPT ![i] = cs[ilast]], 1, ilast - 1)

\* ------------------------------------------------------ call and return
NoOp == [name |-> "", type |-> "", net |-> "", cmd |-> "", args |-> <<>>]
IdleLoc == [pc |-> "idle", op |-> NoOp, res |-> "", cur |-> NoClient, snap |-> <<>>,
            calls |-> {}, pubs |-> <<>>, late |-> FALSE]

\* The session objects something still refers to when p starts an operation
\* on c: the registry, c, and the calls of the other processes.  The others
\* are garbage and their slots are reused.
Reachable(p, c) ==
    SetOf(clients) \cup {c} \cup
    UNION {{loc[q].cur} \cup SetOf(loc[q].snap) \cup {x[2] : x \in loc[q].calls} :
             q \in Procs \ {p}}

\* p calls operation o on session c and stands at position at.
Begin(p, o, c, at) ==
    /\ loc' = [loc EXCEPT ![p] = [IdleLoc EXCEPT !.pc = at, !.op = o, !.cur = c,
                 !.late = (p \in Observed /\ o.name = "Login" /\ closed = 1)]]
    /\ sess' = [x \in Clients |-> IF x \in Reachable(p, c) THEN sess[x] ELSE FreeSess]
    /\ started' = started \cap Reachable(p, c)
    /\ UNCHANGED <<impl, svcVars, provVars>>

\* p moves on within its operation: its locals become l.
Step(p, l) == loc' = [loc EXCEPT ![p] = l] /\ UNCHANGED provVars

\* What Transporter.PublishError puts on the transport: a NetMsg of type
\* "error" on node "error" whose text is the error's.
ErrorEvent(text) == [node |-> "error", type |-> "error", text |-> text]

Publish(l, event) == [l EXCEPT !.pubs = Append(@, event)]

\* cmdErr: svc.tp.PublishError of "command <cmd> error: <errmsg>"
cmdErr(l, errmsg) ==
    Publish(l, ErrorEvent("command " \o l.op.cmd \o " error: " \o errmsg))

\* A Login or Logout failed with r: cmdLogin and cmdLogout (the calls made by
\* CmdHandler) publish the error, a direct call does not.
Failed(l, r) == IF l.op.name = "CmdHandler" THEN cmdErr(l, r) ELSE l

Invoke(l, method, c) == [l EXCEPT !.calls = @ \cup {<<method, c>>}]

\* The operation of p returns r with locals l.
Return(p, l, r) ==
    Step(p, IF p \in Observed
              THEN [l EXCEPT !.pc = "idle", !.res = r, !.snap = <<>>]
              ELSE IdleLoc)

At(p, at) == loc[p].pc = at
Goto(l, at) == [l EXCEPT !.pc = at]

\* ---------------------------------------------------------------- Login
\* The remote argument of the Login in progress (Args[0] of a login command).
Remote(l) == IF l.op.name = "Login" THEN l.op.net ELSE l.op.args[1]

BeginLogin(p) ==
    /\ At(p, "idle")
    /\ \E remote \in NetIDs :
        Begin(p, [NoOp EXCEPT !.name = "Login", !.net = remote], NoClient, "login_new")

\* What svc.newClient builds: dummy.NewClient a session that reports the
\* network identity "dummy" and no connection identity.
NewSess(remote) ==
    IF impl = "dummy"
      THEN [st |-> "new", net |-> "dummy", conn |-> ""]
      ELSE [st |-> "new", net |-> remote, conn |-> ConnOf(remote)]

\* svc.newClient under newClientMx.  dummy.NewClient fails on a closed service;
\* a generic constructor may fail for its own reasons.
LoginNewClient(p) ==
    /\ At(p, "login_new")
    /\ \/ /\ impl = "dummy" /\ ServiceClosed
          /\ Return(p, Failed(loc[p], "service is closed"), "service is closed")
          /\ UNCHANGED sess
       \/ /\ impl = "generic"
          /\ Return(p, Failed(loc[p], "newClient error"), "newClient error")
          /\ UNCHANGED sess
       \/ /\ impl = "dummy" => ~ServiceClosed
          /\ \E c \in Clients :
              /\ sess[c].st = "free"
              /\ \A d \in Clients : sess[d].st = "free" => c <= d
              /\ sess' = [sess EXCEPT ![c] = NewSess(Remote(loc[p]))]
              /\ Step(p, [loc[p] EXCEPT !.pc = "add_lock", !.cur = c])
    /\ UNCHANGED <<impl, svcVars, started>>

\* addClient, first half: svc.mx.Lock() and the test of svc.Closed().  A
\* session that is refused was never shared and is garbage.
AddClientLock(p) ==
    /\ At(p, "add_lock")
    /\ mxOwner = 0
    /\ IF ServiceClosed
         THEN /\ Return(p, Failed([loc[p] EXCEPT !.cur = NoClient], "service is closed"),
                        "service is closed")
              /\ sess' = [sess EXCEPT ![loc[p].cur] = FreeSess]
              /\ UNCHANGED mxOwner
         ELSE /\ mxOwner' = p
              /\ Step(p, Goto(loc[p], "add_append"))
              /\ UNCHANGED sess
    /\ UNCHANGED <<impl, clients, closed, done, nShutdown, doneCloses, started>>

\* addClient, second half: the duplicate test, the append and the deferred Unlock.
AddClientAppend(p) ==
    /\ At(p, "add_append")
    /\ mxOwner = p
    /\ mxOwner' = 0
    /\ IF NetworkIDInUse(loc[p].cur)
         THEN /\ Return(p, Failed([loc[p] EXCEPT !.cur = NoClient], "network ID is in use"),
                        "network ID is in use")
              /\ sess' = [sess EXCEPT ![loc[p].cur] = FreeSess]
              /\ UNCHANGED clients
         ELSE /\ clients' = Append(clients, loc[p].cur)
              /\ Step(p, Goto(loc[p], "login_start"))
              /\ UNCHANGED sess
    /\ UNCHANGED <<impl, closed, done, nShutdown, doneCloses, started>>

\* (a Login that returns the error of Start without removeClient)
LoginStartNoRemove(p) ==
    /\ At(p, "login_start")
    /\ LET l == Invoke(loc[p], "Start", loc[p].cur) IN
       \E e \in SessErrs("start error") :
        IF e = ""
          THEN /\ started' = started \cup {l.cur}
               /\ Return(p, l, "ok")
          ELSE /\ Return(p, Failed(l, e), e)
               /\ UNCHANGED started
    /\ UNCHANGED <<impl, svcVars, sess>>

\* client.Start(client.Context(), id)
LoginStart(p) ==
    /\ At(p, "login_start")
    /\ LET l == Invoke(loc[p], "Start", loc[p].cur) IN
       \E e \in SessErrs("start error") :
        IF e = ""
          THEN /\ started' = started \cup {l.cur}
               /\ Return(p, l, "ok")
          ELSE /\ Step(p, [l EXCEPT !.pc = "login_remove", !.res = e])
               /\ UNCHANGED started
    /\ UNCHANGED <<impl, svcVars, sess>>

\* svc.removeClient(client) after a failed Start, then return the error of Start
LoginRemove(p) ==
    /\ At(p, "login_remove")
    /\ mxOwner = 0
    /\ clients' = removeClient(clients, loc[p].cur)
    /\ Return(p, Failed(loc[p], loc[p].res), loc[p].res)
    /\ UNCHANGED <<impl, closed, done, mxOwner, nShutdown, doneCloses, sess, started>>

\* ---------------------------------------------------------------- Close
BeginClose(p) ==
    /\ At(p, "idle")
    /\ Begin(p, [NoOp EXCEPT !.name = "Close"], NoClient, "close_cas")

\* (a plain store in place of the compare-and-swap)
CloseCASAlways(p) ==
    /\ At(p, "close_cas")
    /\ closed' = 1
    /\ nShutdown' = Bump(nShutdown)
    /\ Step(p, Goto(loc[p], "close_snap1"))
    /\ UNCHANGED <<impl, clients, done, mxOwner, doneCloses, sess, started>>

\* atomic.CompareAndSwapInt32(&svc.closed, 0, 1)
CloseCAS(p) ==
    /\ At(p, "close_cas")
    /\ IF closed = 0
         THEN /\ closed' = 1
              /\ nShutdown' = Bump(nShutdown)
              /\ Step(p, Goto(loc[p], "close_snap1"))
         ELSE /\ Return(p, loc[p], "already closed")
              /\ UNCHANGED <<closed, nShutdown>>
    /\ UNCHANGED <<impl, clients, done, mxOwner, doneCloses, sess, started>>

\* the first svc.GetClients()
CloseSnap1(p) ==
    /\ At(p, "close_snap1")
    /\ mxOwner = 0
    /\ Step(p, [loc[p] EXCEPT !.snap = clients,
                  !.pc = IF clients = <<>> THEN "close_snap2" ELSE "close_loop"])
    /\ UNCHANGED <<impl, svcVars, sess, started>>

\* one round of the first loop: client.Close(), and return its error if any
CloseLoop(p) ==
    /\ At(p, "close_loop")
    /\ LET c == Head(loc[p].snap)
           l == Invoke(loc[p], "Close", c)
       IN  \E e \in SessErrs("close error") :
            IF e = ""
              THEN /\ sess' = [sess EXCEPT ![c] = AfterClose(@)]
                   /\ Step(p, [l EXCEPT !.snap = Tail(@),
                         !.pc = IF Tail(l.snap) = <<>> THEN "close_snap2" ELSE "close_loop"])
              ELSE /\ Return(p, l, e)
                   /\ UNCHANGED sess
    /\ UNCHANGED <<impl, svcVars, started>>

\* the second svc.GetClients()
CloseSnap2(p) ==
    /\ At(p, "close_snap2")
    /\ mxOwner = 0
    /\ Step(p, [loc[p] EXCEPT !.snap = clients,
                  !.pc = IF clients = <<>> THEN "close_done" ELSE "close_wait"])
    /\ UNCHANGED <<impl, svcVars, sess, started>>

\* (a second loop that does not wait)
CloseWaitNoWait(p) ==
    /\ At(p, "close_wait")
    /\ Step(p, [loc[p] EXCEPT !.snap = Tail(@),
                  !.pc = IF Tail(loc[p].snap) = <<>> THEN "close_done" ELSE "close_wait"])
    /\ UNCHANGED <<impl, svcVars, sess, started>>

\* one round of the second loop: <-client.Context().Done()
CloseWait(p) ==
    /\ At(p, "close_wait")
    /\ ClientClosed(Head(loc[p].snap))
    /\ Step(p, [loc[p] EXCEPT !.snap = Tail(@),
                  !.pc = IF Tail(loc[p].snap) = <<>> THEN "close_done" ELSE "close_wait"])
    /\ UNCHANGED <<impl, svcVars, sess, started>>

\* close(svc.done); return nil
CloseDone(p) ==
    /\ At(p, "close_done")
    /\ done' = TRUE
    /\ doneCloses' = Bump(doneCloses)
    /\ Return(p, loc[p], "ok")
    /\ UNCHANGED <<impl, clients, closed, mxOwner, nShutdown, sess, started>>

\* --------------------------------------------------------------- Logout
\* The logoutID argument of the Logout in progress (Args[0] of a logout command).
Target(l) == IF l.op.name = "Logout" THEN l.op.net ELSE l.op.args[1]

BeginLogout(p) ==
    /\ At(p, "idle")
    /\ \E target \in Targets :
        Begin(p, [NoOp EXCEPT !.name = "Logout", !.net = target], NoClient, "logout_find")

\* client := svc.findLogoutID(logoutID), and the not-found return
LogoutFind(p) ==
    /\ At(p, "logout_find")
    /\ mxOwner = 0
    /\ LET c == findLogoutID(Target(loc[p])) IN
        IF c = NoClient
          THEN Return(p, Failed(loc[p], "ID not found"), "ID not found")
          ELSE Step(p, [loc[p] EXCEPT !.cur = c, !.pc = "logout_call"])
    /\ UNCHANGED <<impl, svcVars, sess, started>>

\* return client.Logout(reason)
LogoutCall(p) ==
    /\ At(p, "logout_call")
    /\ LET l == Invoke(loc[p], "Logout", loc[p].cur) IN
       \E e \in SessErrs("logout error") :
        IF e = ""
          THEN /\ sess' = [sess EXCEPT ![l.cur] = AfterClose(@)]
               /\ Return(p, l, "ok")
          ELSE /\ Return(p, Failed(l, e), e)
               /\ UNCHANGED sess
    /\ UNCHANGED <<impl, svcVars, started>>

\* ------------------------------------------------------- OnClientClosed
\* Some session object is passed to svc.OnClientClosed.
BeginOnClientClosed(p) ==
    /\ At(p, "idle")
    /\ \E c \in Clients :
        /\ sess[c].st # "free"
        /\ Begin(p, [NoOp EXCEPT !.name = "OnClientClosed"], c, "occ_check")

\* (an OnClientClosed without the test of client.Closed())
OnClientClosedNoCheck(p) ==
    /\ At(p, "occ_check")
    /\ Step(p, Goto(loc[p], "occ_remove"))
    /\ UNCHANGED <<impl, svcVars, sess, started>>

\* if !client.Closed() { panic("client not closed") }
OnClientClosedCheck(p) ==
    /\ At(p, "occ_check")
    /\ IF ~ClientClosed(loc[p].cur)
         THEN Return(p, loc[p], "panic: client not closed")
         ELSE Step(p, Goto(loc[p], "occ_remove"))
    /\ UNCHANGED <<impl, svcVars, sess, started>>

\* svc.removeClient(client)
OnClientClosedRemove(p) ==
    /\ At(p, "occ_remove")
    /\ mxOwner = 0
    /\ clients' = removeClient(clients, loc[p].cur)
    /\ Return(p, loc[p], "ok")
    /\ UNCHANGED <<impl, closed, done, mxOwner, nShutdown, doneCloses, sess, started>>

\* ----------------------------------------------------------- CmdHandler
BeginCmdHandler(p) ==
    /\ At(p, "idle")
    /\ \E msg \in CmdMsgs : Begin(p, msg, NoClient, "cmd")

\* (a CheckArgs that asks for two arguments at most)
CheckArgsAtMostTwo(n, msg) == Len(msg.args) >= Min({n, 2})

\* CheckArgs(n, msg): at least n args (its error is published by the caller here)
CheckArgs(n, msg) == Len(msg.args) >= n

\* The test CmdHandler starts with: msg.Network.ID != ""
\* (a CmdHandler that never forwards)
ForSessionNever(msg) == FALSE
ForSession(msg) == msg.net # ""

\* msg.Network.ID != "": client := svc.GetClientByNetwork(msg.Network.ID), and
\* the "network not found" error when there is none
CmdHandlerLookup(p) ==
    /\ At(p, "cmd")
    /\ ForSession(loc[p].op)
    /\ mxOwner = 0
    /\ LET c == GetClientByNetwork(loc[p].op.net) IN
        IF c = NoClient
          THEN Return(p, Publish(loc[p],
                         ErrorEvent("network not found: " \o loc[p].op.net)), "")
          ELSE Step(p, [loc[p] EXCEPT !.cur = c, !.pc = "cmd_forward"])
    /\ UNCHANGED <<impl, svcVars, sess, started>>

\* client.CmdHandler(msg)
CmdHandlerForward(p) ==
    /\ At(p, "cmd_forward")
    /\ Return(p, Invoke(loc[p], "CmdHandler", loc[p].cur), "")
    /\ UNCHANGED <<impl, svcVars, sess, started>>

\* The event the ping command publishes: a BaseMsg of type "other/ping" on
\* node "other" with Args[0] as its text, if there is one.
PingEvent(msg) ==
    [node |-> "other", type |-> "other/ping",
     text |-> IF Len(msg.args) > 0 THEN msg.args[1] ELSE ""]

\* msg.Network.ID == "": switch msg.Command
CmdHandlerSwitch(p) ==
    /\ At(p, "cmd")
    /\ ~ForSession(loc[p].op)
    /\ LET l == loc[p]
           msg == loc[p].op
       IN  CASE msg.cmd = "login" ->
                  IF CheckArgs(3, msg)
                    THEN Step(p, Goto(l, "login_new"))
                    ELSE Return(p, cmdErr(l, "expected 3 args"), "")
             [] msg.cmd = "logout" ->
                  IF CheckArgs(1, msg)
                    THEN Step(p, Goto(l, "logout_find"))
                    ELSE Return(p, cmdErr(l, "expected 1 args"), "")
             [] msg.cmd = "ping" ->
                  Return(p, Publish(l, PingEvent(msg)), "")
             [] OTHER ->
                  Return(p, Publish(l, ErrorEvent("unhandled command: " \o msg.cmd)), "")
    /\ UNCHANGED <<impl, svcVars, sess, started>>

\* -------------------------------------------------------------- Handler
BeginHandler(p) ==
    /\ At(p, "idle")
    /\ \E msg \in ChatMsgs : Begin(p, msg, NoClient, "handler")

\* (a Handler that asks for the network identity only)
InvalidMsgNoType(msg) == msg.net = ""
\* msg.Type == "" || msg.Network.ID == ""
InvalidMsg(msg) == msg.type = "" \/ msg.net = ""

\* The test of the message, client := svc.GetClientByNetwork(msg.Network.ID),
\* and the two errors
HandlerLookup(p) ==
    /\ At(p, "handler")
    /\ IF InvalidMsg(loc[p].op)
         THEN Return(p, Publish(loc[p], ErrorEvent("invalid message")), "")
         ELSE /\ mxOwner = 0
              /\ LET c == GetClientByNetwork(loc[p].op.net) IN
                  IF c = NoClient
                    THEN Return(p, Publish(loc[p],
                                   ErrorEvent("network not found: " \o loc[p].op.net)), "")
                    ELSE Step(p, [loc[p] EXCEPT !.cur = c, !.pc = "handler_forward"])
    /\ UNCHANGED <<impl, svcVars, sess, started>>

\* client.Handler(msg)
HandlerForward(p) ==
    /\ At(p, "handler_forward")
    /\ Return(p, Invoke(loc[p], "Handler", loc[p].cur), "")
    /\ UNCHANGED <<impl, svcVars, sess, started>>

\* ------------------------------------------------------- the session side
\* A generic session that was told to close reaches closed.
SessionDone(c) ==
    /\ impl = "generic"
    /\ sess[c].st = "closing"
    /\ sess' = [sess EXCEPT ![c].st = "closed"]
    /\ UNCHANGED <<impl, svcVars, started, loc, provVars>>

\* ============================================================== provider
Conns == 1..MaxAccepts
\* The connection whose last request stays on record when it has been handled.
ObservedConns == {1}
Creds == {"", "p1", "p2"}           \* credentials a provider-auth presents
\* var DefaultOptions
DefaultOptions == [Password |-> "", AutoPassword |-> FALSE, AutoExit |-> TRUE, MaxConns |-> 1]
\* The options a provider is run with.
OptionSets == [Password : {"", "p1"}, AutoPassword : BOOLEAN, AutoExit : BOOLEAN,
               MaxConns : {1, MaxAccepts}]

\* Request data (r.Data): nothing, bytes that are no JSON, or a JSON message
\* with its type, command, arguments and network identity.
NoData == [kind |-> "empty", type |-> "", cmd |-> "", args |-> <<>>, net |-> ""]
BadData == [NoData EXCEPT !.kind = "bad"]
AuthArgs == {<<>>} \cup {<<c>> : c \in Creds} \cup {<<c, "x">> : c \in Creds}
\* A provider-auth for a network is tried without arguments and with one.
AuthData == {m \in [kind : {"json"}, type : {"cmd"}, cmd : {"provider-auth"},
                    args : AuthArgs, net : {"", "n1"}] :
               m.net # "" => m.args \in {<<>>, <<"p1">>}}
OtherData == {[NoData EXCEPT !.kind = "json", !.type = "cmd", !.cmd = "ping"],
              [NoData EXCEPT !.kind = "json", !.type = "msg", !.net = "n1"],
              [NoData EXCEPT !.kind = "json", !.type = "msg", !.cmd = "provider-auth",
                             !.args = <<"p1">>]}
DataIn == {NoData, BadData} \cup AuthData \cup OtherData

NoConn == [st |-> "none", authed |-> FALSE, pc |-> "idle", msg |-> NoData, priv |-> <<>>,
           skipped |-> FALSE, ndisp |-> 0, nreq |-> 0]

\* msg.IsType("cmd"), for the types tried here (none has a subtype)
IsCmd(msg) == msg.type = "cmd"

\* (a check that takes any credential)
PasswordCheckAny(pw) == ~passwordDisabled

\* (a check that does not look at passwordDisabled)
PasswordCheckNoDisable(pw) == pw = password \/ (password = "" /\ opts.AutoPassword)

\* provider.PasswordCheck(pw): its result, and p.password when it has returned
PasswordCheck(pw) ==
    IF passwordDisabled THEN FALSE
    ELSE IF pw = password THEN TRUE
    ELSE IF password = "" /\ opts.AutoPassword THEN TRUE
    ELSE FALSE

PasswordAfterCheck(pw) ==
    IF ~passwordDisabled /\ pw # password /\ password = "" /\ opts.AutoPassword
      THEN pw ELSE password

\* (a skip that does not look at its token)
PasswordCheckSkipNoToken == opts.AutoPassword /\ password = ""

\* provider.PasswordCheckSkip(): its result; it sets passwordDisabled when true
PasswordCheckSkip ==
    IF ~opts.AutoPassword THEN FALSE
    ELSE IF passwordDisabled \/ password # "" THEN FALSE
    ELSE TRUE

\* srv.NumConns()
NumConns == Cardinality({c \in Conns : cinfo[c].st = "open"})

\* tp.AddTransport(transport), tp.RemoveTransport(transport)
AddTransport(ts, c) == Append(ts, c)

\* (a RemoveTransport that leaves the set as it is)
RemoveTransportNone(ts, c) == ts

RemoveTransport(ts, c) ==
    LET I == {i \in 1..Len(ts) : ts[i] = c}
    IN  IF I = {} THEN ts
        ELSE LET i == Min(I) IN SubSeq(ts, 1, i - 1) \o SubSeq(ts, i + 1, Len(ts))

\* MultiTransport.Publish: every transport of the set gets the event.
FanOut(dl, ts) == dl \cup SetOf(ts)

\* Handler returns: the request is dropped.
Handled(c, ci) ==
    IF c \in ObservedConns THEN [ci EXCEPT !.pc = "idle", !.msg = NoData]
    ELSE [ci EXCEPT !.pc = "idle", !.msg = NoData, !.priv = <<>>]

\* (a refusal that publishes nothing)
PrivErrorSilent(c, ci, text) == Handled(c, ci)

\* cinfo.tp.PublishError(msg.ID, msg.Network.ID, err); return
PrivError(c, ci, text) == Handled(c, [ci EXCEPT !.priv = Append(@, ErrorEvent(text))])

\* The confirmation of provider-auth: a BaseMsg built by
\* outmsg.Init(msg.ID, "", protocol) with the text "authenticated", published
\* on node "info/provider.auth".
AuthEvent == [node |-> "info/provider.auth", type |-> "", text |-> "authenticated"]

\* (a provider that asks for the handshake only when a password is configured)
wantServiceAuthPasswordOnly == opts.Password # ""

\* wantServiceAuth := opts.AutoPassword || opts.Password != ""
wantServiceAuth == opts.AutoPassword \/ opts.Password # ""

registryVars == <<impl, clients, closed, done, mxOwner, sess, started, loc, nShutdown, doneCloses,
                  libVars>>

\* Server.NewConn: the server accepts a connection.
NewConn(c) ==
    /\ cinfo[c].st = "none"
    /\ \A d \in Conns : cinfo[d].st = "none" => c <= d
    /\ ~srvClosed /\ srvMaxConns # -1 /\ NumConns < srvMaxConns
    /\ cinfo' = [cinfo EXCEPT ![c] = [NoConn EXCEPT !.st = "open", !.authed = ~wantServiceAuth]]
    /\ srvMaxConns' = IF opts.MaxConns = 1 /\ opts.AutoExit THEN -1 ELSE srvMaxConns
    /\ transports' = IF ~wantServiceAuth THEN AddTransport(transports, c) ELSE transports
    /\ UNCHANGED <<opts, password, passwordDisabled, srvClosed, delivered, nSkips, firstAuth>>
    /\ UNCHANGED registryVars

\* Server.Handler is called with a request of the connection: the test of
\* len(r.Data) and of cinfo.authed.
Recv(c) ==
    /\ cinfo[c].st = "open" /\ cinfo[c].pc = "idle"
    /\ \E m \in DataIn :
        /\ cinfo[c].priv # <<>> \/ m.kind # "empty"
        /\ cinfo' = [cinfo EXCEPT ![c] =
              [@ EXCEPT !.msg = m, !.priv = <<>>,
                        !.nreq = IF m.kind = "empty" THEN @ ELSE Bump(@),
                        !.pc = IF m.kind = "empty" THEN "idle"
                               ELSE IF cinfo[c].authed THEN "dispatch" ELSE "check"]]
    /\ UNCHANGED <<opts, password, passwordDisabled, srvMaxConns, srvClosed,
                   transports, delivered, nSkips, firstAuth>>
    /\ UNCHANGED registryVars

\* Not authed yet: decode the request as a command and check it.
HandlerCheck(c) ==
    /\ cinfo[c].pc = "check"
    /\ LET ci == cinfo[c]
           msg == cinfo[c].msg
           fail(text) == /\ cinfo' = [cinfo EXCEPT ![c] = PrivError(c, ci, text)]
                         /\ UNCHANGED <<password, passwordDisabled, nSkips, firstAuth>>
       IN  IF msg.kind = "bad" THEN fail("message load error")
           ELSE IF IsCmd(msg) /\ msg.cmd = "provider-auth"
             THEN IF Len(msg.args) < 1 THEN fail("unexpected command args")
                  ELSE IF msg.net # "" THEN fail("cannot provider-auth to a network")
                  ELSE IF ~PasswordCheck(msg.args[1]) THEN fail("authentication failed")
                  ELSE /\ password' = PasswordAfterCheck(msg.args[1])
                       /\ firstAuth' = IF firstAuth.seen THEN firstAuth
                                       ELSE [seen |-> TRUE, cred |-> msg.args[1]]
                       /\ cinfo' = [cinfo EXCEPT ![c].pc = "admit"]
                       /\ UNCHANGED <<passwordDisabled, nSkips>>
             ELSE IF PasswordCheckSkip
               THEN /\ passwordDisabled' = TRUE
                    /\ nSkips' = Bump(nSkips)
                    /\ cinfo' = [cinfo EXCEPT ![c].pc = "admit_skip"]
                    /\ UNCHANGED <<password, firstAuth>>
               ELSE fail("must authenticate with the provider first (provider-auth)")
    /\ UNCHANGED <<opts, srvMaxConns, srvClosed, transports, delivered>>
    /\ UNCHANGED registryVars

\* provider-auth succeeded: cinfo.authed = true, tp.AddTransport(cinfo.tp) and
\* the confirmation on cinfo.tp
HandlerAdmit(c) ==
    /\ cinfo[c].pc = "admit"
    /\ cinfo' = [cinfo EXCEPT ![c] =
          Handled(c, [@ EXCEPT !.authed = TRUE, !.priv = Append(@, AuthEvent)])]
    /\ transports' = AddTransport(transports, c)
    /\ UNCHANGED <<opts, password, passwordDisabled, srvMaxConns, srvClosed,
                   delivered, nSkips, firstAuth>>
    /\ UNCHANGED registryVars

\* (a skip that dispatches without marking the connection)
HandlerAdmitSkipNoAuth(c) ==
    /\ cinfo[c].pc = "admit_skip"
    /\ cinfo' = [cinfo EXCEPT ![c] = [@ EXCEPT !.skipped = TRUE, !.pc = "dispatch"]]
    /\ UNCHANGED <<opts, password, passwordDisabled, srvMaxConns, srvClosed,
                   transports, delivered, nSkips, firstAuth>>
    /\ UNCHANGED registryVars

\* The skip was granted: cinfo.authed = true, tp.AddTransport(cinfo.tp), and
\* fall through to the dispatch of the request in hand.
HandlerAdmitSkip(c) ==
    /\ cinfo[c].pc = "admit_skip"
    /\ cinfo' = [cinfo EXCEPT ![c] =
          [@ EXCEPT !.authed = TRUE, !.skipped = TRUE, !.pc = "dispatch"]]
    /\ transports' = AddTransport(transports, c)
    /\ UNCHANGED <<opts, password, passwordDisabled, srvMaxConns, srvClosed,
                   delivered, nSkips, firstAuth>>
    /\ UNCHANGED registryVars

\* service.DispatchMsg(svc, r.Data): data that cannot be decoded goes to
\* svc.GenericError, which publishes on the fan-out; a decoded message goes to
\* the registry's CmdHandler or Handler (modelled by the steps above), which
\* may publish on the fan-out.
HandlerDispatch(c) ==
    /\ cinfo[c].pc = "dispatch"
    /\ IF cinfo[c].msg.kind = "bad"
         THEN /\ delivered' = FanOut(delivered, transports)
              /\ cinfo' = [cinfo EXCEPT ![c] = Handled(c, @)]
         ELSE /\ cinfo' = [cinfo EXCEPT ![c] = Handled(c,
                    [@ EXCEPT !.ndisp = IF c \in ObservedConns THEN Bump(@) ELSE @])]
              /\ \E reply \in BOOLEAN :
                    delivered' = IF reply THEN FanOut(delivered, transports) ELSE delivered
    /\ UNCHANGED <<opts, password, passwordDisabled, srvMaxConns, srvClosed,
                   transports, nSkips, firstAuth>>
    /\ UNCHANGED registryVars

\* Server.ConnClosed: the connection is gone (with or without an error); its
\* transport leaves the fan-out; with AutoExit the last one closes the server
\* and the registry, which holds no session here.
ConnClosed(c) ==
    /\ cinfo[c].st = "open" /\ cinfo[c].pc = "idle"
    /\ \E err \in BOOLEAN :
          delivered' = IF err THEN FanOut(delivered, transports) ELSE delivered
    /\ transports' = RemoveTransport(transports, c)
    /\ cinfo' = [cinfo EXCEPT ![c].st = "closed"]
    /\ IF NumConns = 1 /\ opts.AutoExit
         THEN /\ srvClosed' = TRUE
              /\ IF closed = 0
                   THEN /\ closed' = 1 /\ nShutdown' = Bump(nShutdown)
                        /\ done' = TRUE /\ doneCloses' = Bump(doneCloses)
                   ELSE UNCHANGED <<closed, nShutdown, done, doneCloses>>
         ELSE UNCHANGED <<srvClosed, closed, nShutdown, done, doneCloses>>
    /\ UNCHANGED <<opts, password, passwordDisabled, srvMaxConns, nSkips, firstAuth>>
    /\ UNCHANGED <<impl, clients, mxOwner, sess, started, loc, libVars>>


\* ------------------------------------------------- message encode and decode
\* A type tag is a string; here it is the sequence of its characters, where a
\* word of the decode table counts as one character.
TypeWords == {"enter", "leave", "user-changed", "member-changed", "subscribe",
              "unsubscribe", "typing", "conn-state", "cmd"}
Tags == {<<>>} \cup UNION {{<<w>>, <<w, "/", "x">>, <<w, "x">>} : w \in TypeWords \cup {"msg"}}
\* the values of the other fields: the zero value and one that is not
FieldVals == {"", "v"}

\* (a prefix test that does not look at the character after the prefix)
IsTypePrefix(msgType, part) ==
    Len(part) <= Len(msgType) /\ part = SubSeq(msgType, 1, Len(part))

\* IsType(msgType, part)
IsType(msgType, part) ==
    \/ part = msgType
    \/ /\ Len(part) < Len(msgType)
       /\ msgType[Len(part) + 1] = "/"
       /\ part = SubSeq(msgType, 1, Len(part))

Shapes == {"BaseMsg", "NetMsg", "ChatMsg", "EnterMsg", "LeaveMsg", "UserChangedMsg",
           "MemberChangedMsg", "SubscribeMsg", "TypingMsg", "ConnMsg", "CmdMsg"}

\* CmdMsg: a BaseMsg with an optional network, a command and its arguments
CmdMsgKeys == {"type", "id", "net", "cmd", "args"}

\* the JSON keys of the fields of a shape (of those that matter to decoding):
\* the embedded BaseMsg, NetMsg or ChatMsg and the fields of the shape itself
Keys(shape) ==
    LET base == {"type", "id"}
        net  == base \cup {"net"}
        chat == net \cup {"dest", "from"}
    IN  CASE shape = "BaseMsg" -> base
          [] shape = "NetMsg" -> net
          [] shape = "ChatMsg" -> chat
          [] shape = "EnterMsg" -> chat \cup {"member"}
          [] shape = "LeaveMsg" -> chat \cup {"user"}
          [] shape = "UserChangedMsg" -> net \cup {"user", "info"}
          [] shape = "MemberChangedMsg" -> chat \cup {"user", "member"}
          [] shape = "SubscribeMsg" -> chat \cup {"myself"}
          [] shape = "TypingMsg" -> chat \cup {"typing"}
          [] shape = "ConnMsg" -> net \cup {"conn", "state"}
          [] shape = "CmdMsg" -> CmdMsgKeys

\* the fields tagged omitempty (AllowOmitEmptyStruct), and the zero values
OmitEmpty == {"dest", "from"}
Zero(k) == IF k = "type" THEN <<>> ELSE ""

NoMsg == [shape |-> "", f |-> <<>>]
\* the field k of a message value, the zero value if its shape has none
Field(m, k) == IF k \in DOMAIN m.f THEN m.f[k] ELSE Zero(k)

\* CmdMsg.IsMsg: a valid BaseMsg with a command
CmdIsMsg(m) == Field(m, "type") # <<>> /\ Field(m, "cmd") # ""

\* (a validity rule that looks at the type only)
IsMsgTypeOnly(m) == Field(m, "type") # <<>>

\* msg.IsMsg(): BaseMsg.IsMsg, NetMsg.IsMsg or ChatMsg.IsMsg, whichever the
\* shape has or gets from the struct it embeds
IsMsg(m) ==
    IF m.shape = "CmdMsg" THEN CmdIsMsg(m)
    ELSE IF m.shape = "BaseMsg" THEN Field(m, "type") # <<>>
    ELSE IF m.shape \in {"NetMsg", "UserChangedMsg", "ConnMsg"}
      THEN Field(m, "type") # <<>> /\ Field(m, "net") # ""
    ELSE /\ Field(m, "type") # <<>> /\ Field(m, "net") # ""
         /\ (Field(m, "dest") # "" \/ Field(m, "from") # "")

\* EncodeMsg: the JSON object of a message value
EncodeMsg(m) ==
    [bad |-> FALSE,
     obj |-> [k \in {j \in Keys(m.shape) : ~(j \in OmitEmpty /\ m.f[j] = Zero(j))} |-> m.f[k]]]
\* bytes that are not a JSON object
BadRaw == [bad |-> TRUE, obj |-> <<>>]

\* DecodeMsg into a value of the given shape: a field takes the value of its
\* key, and stays zero if the object has none; other keys are ignored
DecodeMsg(shape, raw) ==
    [shape |-> shape,
     f |-> [k \in Keys(shape) |-> IF k \in DOMAIN raw.obj THEN raw.obj[k] ELSE Zero(k)]]

ParseOk(m) == [msg |-> m, err |-> ""]
ParseErr(m, text) == [msg |-> m, err |-> text]

\* (a re-decode that does not validate)
reparseNoValidate(shape, raw) == ParseOk(DecodeMsg(shape, raw))

\* reparseBaseMsg
reparseBaseMsg(shape, raw) ==
    LET msg == DecodeMsg(shape, raw)
    IN  IF ~IsMsg(msg) THEN ParseErr(msg, "not a valid message") ELSE ParseOk(msg)

\* the switch of ParseBaseMsg: the shape of the first case the type is of
SwitchShape(t) ==
    IF IsType(t, <<"enter">>) THEN "EnterMsg"
    ELSE IF IsType(t, <<"leave">>) THEN "LeaveMsg"
    ELSE IF IsType(t, <<"user-changed">>) THEN "UserChangedMsg"
    ELSE IF IsType(t, <<"member-changed">>) THEN "MemberChangedMsg"
    ELSE IF IsType(t, <<"subscribe">>) \/ IsType(t, <<"unsubscribe">>) THEN "SubscribeMsg"
    ELSE IF IsType(t, <<"typing">>) THEN "TypingMsg"
    ELSE IF IsType(t, <<"conn-state">>) THEN "ConnMsg"
    ELSE IF IsType(t, <<"cmd">>) THEN "CmdMsg"
    ELSE ""

\* ParseBaseMsg
ParseBaseMsg(raw) ==
    IF raw.bad THEN ParseErr(NoMsg, "message load error")
    ELSE LET msg == DecodeMsg("ChatMsg", raw)
             shape == SwitchShape(msg.f.type)
         IN  IF shape # "" THEN reparseBaseMsg(shape, raw)
             ELSE IF IsMsg(msg) THEN ParseOk(msg)
             ELSE IF IsMsg([msg EXCEPT !.shape = "BaseMsg"])
               THEN IF msg.f.net # ""
                      THEN ParseOk([shape |-> "NetMsg",
                                    f |-> [k \in Keys("NetMsg") |-> msg.f[k]]])
                      ELSE ParseOk([shape |-> "BaseMsg",
                                    f |-> [k \in Keys("BaseMsg") |-> msg.f[k]]])
             ELSE ParseErr(msg, "not a valid message")

NoCodec == [pc |-> "idle", msg |-> NoMsg, raw |-> BadRaw, out |-> ParseOk(NoMsg)]

notCodec == <<impl, clients, closed, done, mxOwner, sess, started, loc, nShutdown,
              doneCloses, opts, password, passwordDisabled, srvMaxConns, srvClosed,
              cinfo, transports, delivered, nSkips, firstAuth, pub, mut, removed,
              call, mk, ws>>

\* A message value of some shape, valid or not, is encoded.
Encode ==
    /\ codec.pc = "idle"
    /\ \E shape \in Shapes, t \in Tags :
       \E g \in [Keys(shape) \ {"type"} -> FieldVals] :
          LET m == [shape |-> shape,
                    f |-> [k \in Keys(shape) |-> IF k = "type" THEN t ELSE g[k]]]
          IN  codec' = [NoCodec EXCEPT !.pc = "encoded", !.msg = m, !.raw = EncodeMsg(m)]
    /\ UNCHANGED notCodec

\* Bytes that are not JSON arrive.
Garble ==
    /\ codec.pc = "idle"
    /\ codec' = [NoCodec EXCEPT !.pc = "encoded"]
    /\ UNCHANGED notCodec

\* The bytes are given to ParseBaseMsg.
Parse ==
    /\ codec.pc = "encoded"
    /\ codec' = [codec EXCEPT !.pc = "parsed", !.out = ParseBaseMsg(codec.raw)]
    /\ UNCHANGED notCodec

\* ------------------------------------------------------ IsType on its own
\* Strings are sequences of characters; the strings given to IsType are all
\* those of at most MaxStr characters over a letter and the separator.
MaxStr == 3
Chars == {"a", "/"}
Strs == UNION {[1..k -> Chars] : k \in 0..MaxStr}

NoCall == [fn |-> "", msgType |-> <<>>, part |-> <<>>, res |-> FALSE]

\* IsType(msgType, part) is called.
IsTypeCall ==
    /\ \E t \in Strs, p \in Strs :
          call' = [fn |-> "IsType", msgType |-> t, part |-> p, res |-> IsType(t, p)]
    /\ UNCHANGED <<coreVars, mk, ws>>

\* ------------------------------------------------------------------ MakeID
\* A uint32 is the tuple of its 4 bytes, most significant first.  A uint64
\* below 2^40 (no value of MakeID is larger) is [hi, lo]: lo its low 24 bits,
\* hi the 16 bits above them.
digits64 == <<"A", "B", "C", "D", "E", "F", "G", "H", "I", "J", "K", "L", "M",
              "N", "O", "P", "Q", "R", "S", "T", "U", "V", "W", "X", "Y", "Z",
              "a", "b", "c", "d", "e", "f", "g", "h", "i", "j", "k", "l", "m",
              "n", "o", "p", "q", "r", "s", "t", "u", "v", "w", "x", "y", "z",
              "0", "1", "2", "3", "4", "5", "6", "7", "8", "9", "-", "_">>

\* a ^ b on naturals
RECURSIVE XorNat(_, _)
XorNat(a, b) ==
    IF a = 0 THEN b
    ELSE IF b = 0 THEN a
    ELSE ((a + b) % 2) + 2 * XorNat(a \div 2, b \div 2)

\* a ^ b on uint64 values
Xor64(a, b) == [hi |-> XorNat(a.hi, b.hi), lo |-> XorNat(a.lo, b.lo)]

\* the loop of Uint64ID: the digits of n, least significant first
RECURSIVE Uint64Buf(_)
Uint64Buf(n) ==
    IF n.hi = 0 /\ n.lo = 0 THEN <<>>
    ELSE <<digits64[(n.lo % 64) + 1]>>
         \o Uint64Buf([hi |-> n.hi \div 64,
                       lo |-> ((n.hi % 64) * 16777216 + n.lo) \div 64])

\* Uint64ID: what it writes to dest
Uint64ID(n) ==
    IF n.hi = 0 /\ n.lo < 64 THEN <<digits64[n.lo + 1]>>
    ELSE LET buf == Uint64Buf(n)
         IN  [i \in 1..Len(buf) |-> buf[Len(buf) + 1 - i]]

\* x + k on uint32, wrapping at 2^32 (k < 2^23)
AddUint32(x, k) ==
    LET s4 == x[4] + k
        s3 == x[3] + (s4 \div 256)
        s2 == x[2] + (s3 \div 256)
        s1 == x[1] + (s2 \div 256)
    IN  <<s1 % 256, s2 % 256, s3 % 256, s4 % 256>>

\* bits.ReverseBytes32
ReverseBytes32(x) == <<x[4], x[3], x[2], x[1]>>

\* MakeID(reqID), given the counter value atomic.AddUint32 returned, the clock
\* and xorID
MakeID(reqID, idnum, unix, xor) ==
    LET r == ReverseBytes32(unix)
        idtime8 == [hi |-> r[1] * 256 + r[2], lo |-> r[3] * 65536 + r[4] * 256]
        num == [hi |-> idnum[1], lo |-> idnum[2] * 65536 + idnum[3] * 256 + idnum[4]]
        id == Xor64(Xor64(idtime8, num), xor)
    IN  (IF reqID # <<>> THEN reqID \o <<"@">> ELSE <<>>) \o Uint64ID(id)

\* The run of calls considered, the calls of it whose result is kept, the
\* stretches of calls whose results are not looked at, and the clock changes.
MaxRun == 100000
MaxIDs == 3
MaxSkips == 2
MaxTicks == 2
ReqIDs == {<<>>, <<"r">>}
\* rng.Int63() >> 24: below 2^39
XorIDs == {[hi |-> 0, lo |-> 0], [hi |-> 23205, lo |-> 3982095]}
SkipLens == {255, 65535}
\* the clock moves by 1 s, 2^8 s, 2^16 s or 2^24 s
TickBytes == 1..4
Epoch == <<100, 0, 0, 0>>

NoMk == [pc |-> "load", xorID |-> [hi |-> 0, lo |-> 0], prevID |-> <<0, 0, 0, 0>>,
         now |-> Epoch, made |-> <<>>, n |-> 0, skips |-> 0, ticks |-> 0]

\* package initialisation: xorID is drawn
XorIDInit ==
    /\ mk.pc = "load"
    /\ \E x \in XorIDs : mk' = [mk EXCEPT !.pc = "run", !.xorID = x]
    /\ UNCHANGED <<coreVars, call, ws>>

\* MakeID(reqID) is called and its result kept.
MakeIDCall(reqID) ==
    /\ mk.pc = "run" /\ mk.n < MaxRun /\ Len(mk.made) < MaxIDs
    /\ LET idnum == AddUint32(mk.prevID, 1)
       IN  mk' = [mk EXCEPT !.prevID = idnum, !.n = @ + 1,
                    !.made = Append(@, [reqID |-> reqID, at |-> mk.n + 1,
                                        unix |-> mk.now,
                                        id |-> MakeID(reqID, idnum, mk.now, mk.xorID)])]
    /\ UNCHANGED <<coreVars, call, ws>>

\* k successive MakeID calls whose results are not looked at: each adds 1 to
\* prevID.
MakeIDSkip(k) ==
    /\ mk.pc = "run" /\ mk.n + k < MaxRun /\ mk.skips < MaxSkips
    /\ mk' = [mk EXCEPT !.prevID = AddUint32(@, k), !.n = @ + k, !.skips = @ + 1]
    /\ UNCHANGED <<coreVars, call, ws>>

\* The clock advances between two calls, by 256^(4-b) seconds.
Tick(b) ==
    /\ mk.pc = "run" /\ mk.ticks < MaxTicks
    /\ LET top == AddUint32([i \in 1..4 |-> IF i <= 4 - b THEN 0 ELSE mk.now[i - (4 - b)]], 1)
       IN  mk' = [mk EXCEPT !.ticks = @ + 1,
                    !.now = [i \in 1..4 |-> IF i <= b THEN top[4 - b + i] ELSE @[i]]]
    /\ UNCHANGED <<coreVars, call, ws>>

\* --------------------------------------------------------------- WebServer
\* Paths are sequences of characters.  The networks, path suffixes and
\* handlers given to ServeURL and StopServeURL, and the paths requested.
WsNetworks == {<<"n">>}
WsSuffixes == {<<>>, <<"a">>, <<"a", "b">>}
WsHandlers == {1, 2}
ReqPaths == {<<"/">>, <<"/", "n", "/">>, <<"/", "n", "/", "a">>, <<"/", "n", "/", "a", "b">>,
             <<"/", "n", "/", "a", "b", "c">>, <<"/", "n", "/", "b">>, <<"/", "m", "/", "a">>}

\* fmt.Sprintf("/%s/%s", network, pathSuffix)
Vurl(network, pathSuffix) == <<"/">> \o network \o <<"/">> \o pathSuffix

\* strings.HasPrefix
HasPrefix(str, prefix) ==
    Len(prefix) <= Len(str) /\ SubSeq(str, 1, Len(prefix)) = prefix

NoRes == [err |-> FALSE, base |-> "", path |-> <<>>]
NoWs == [BindAddr |-> "", PublicURL |-> "", handlers |-> {}, srv |-> "zero",
         lis |-> "none", pc |-> "idle", op |-> [name |-> "", path |-> <<>>],
         res |-> NoRes, found |-> 0, failed |-> FALSE]

\* mymux.NumHandlers
NumHandlers(handlers) == Cardinality(handlers)

\* mymux.Handle: handlers[hpath] = handler
Handle(handlers, hpath, handler) ==
    {e \in handlers : e.hpath # hpath} \cup {[hpath |-> hpath, handler |-> handler]}

\* mymux.RemoveHandler: delete(handlers, hpath)
RemoveHandler(handlers, hpath) == {e \in handlers : e.hpath # hpath}

\* the orders in which range may visit the entries of the map
RangeOrders(handlers) ==
    {o \in [1..Cardinality(handlers) -> handlers] :
        \A i, j \in 1..Cardinality(handlers) : i # j => o[i] # o[j]}

\* (a lookup that returns the first entry visited that is a prefix)
FindFirstPrefix(order, path) ==
    LET hits == {i \in 1..Len(order) : HasPrefix(path, order[i].hpath)}
    IN  IF hits = {} THEN 0
        ELSE order[CHOOSE i \in hits : \A j \in hits : i <= j].handler

\* the range loop of mymux.FindHandler
RECURSIVE FindHandlerLoop(_, _, _, _)
FindHandlerLoop(order, path, bestHandler, bestHandlerLen) ==
    IF order = <<>> THEN bestHandler
    ELSE IF Len(Head(order).hpath) > bestHandlerLen /\ HasPrefix(path, Head(order).hpath)
      THEN FindHandlerLoop(Tail(order), path, Head(order).handler, Len(Head(order).hpath))
    ELSE FindHandlerLoop(Tail(order), path, bestHandler, bestHandlerLen)

\* mymux.FindHandler, the map visited in the given order
mymuxFindHandler(order, path) == FindHandlerLoop(order, path, 0, 0)

\* The owner sets the exported fields before the first call; the PublicURL
\* "bad" is one url.Parse rejects.
WsConfigure ==
    /\ ws = NoWs
    /\ \E b \in {"", "addr"}, u \in {"", "url", "bad"} :
          /\ <<b, u>> # <<"", "">>
          /\ ws' = [ws EXCEPT !.BindAddr = b, !.PublicURL = u]
    /\ UNCHANGED <<coreVars, call, mk>>

\* WebServer.ServeURL.  listen is what net.Listen does when it is called (for
\* an empty bind address: on the last of its tries): it fails while the
\* listener made before is still open on the address.
ServeURL(network, pathSuffix, handler, listen) ==
    /\ ws.pc = "idle"
    /\ LET vurl == Vurl(network, pathSuffix)
           isFirst == NumHandlers(ws.handlers) = 0
           handled == Handle(ws.handlers, vurl, handler)
           parseErr == ws.BindAddr = "" /\ ws.PublicURL = "bad"
       IN  \/ /\ ~(isFirst /\ NumHandlers(handled) = 1)
              /\ ws' = [ws EXCEPT !.handlers = handled,
                          !.op = [name |-> "serve", path |-> vurl],
                          !.res = [err |-> FALSE, base |-> ws.PublicURL, path |-> vurl],
                          !.found = 0]
           \/ /\ isFirst /\ NumHandlers(handled) = 1
              /\ parseErr \/ listen = "err"
              /\ ws' = [ws EXCEPT !.handlers = handled, !.srv = "set",
                          !.op = [name |-> "serve", path |-> vurl],
                          !.res = [NoRes EXCEPT !.err = TRUE], !.found = 0,
                          !.failed = TRUE]
           \/ /\ isFirst /\ NumHandlers(handled) = 1
              /\ ~parseErr /\ listen = "ok" /\ ws.lis = "none"
              /\ ws' = [ws EXCEPT !.handlers = handled, !.srv = "set",
                          !.lis = "bound",
                          !.PublicURL = IF @ = "" THEN "url" ELSE @,
                          !.op = [name |-> "serve", path |-> vurl],
                          !.res = [err |-> FALSE,
                                   base |-> IF ws.PublicURL = "" THEN "url" ELSE ws.PublicURL,
                                   path |-> vurl],
                          !.found = 0]
    /\ UNCHANGED <<coreVars, call, mk>>

\* ws.srv.Close(): the listeners Serve runs on are closed
SrvClose(lis) == IF lis = "serving" THEN "none" ELSE lis

\* WebServer.StopServeURL, up to ws.srv.Close()
StopServeURL(network, pathSuffix) ==
    /\ ws.pc = "idle"
    /\ LET vurl == Vurl(network, pathSuffix)
           isLast == NumHandlers(ws.handlers) = 1
           rest == RemoveHandler(ws.handlers, vurl)
           down == isLast /\ NumHandlers(rest) = 0
       IN  ws' = [ws EXCEPT !.handlers = rest,
                    !.srv = IF down THEN "shut" ELSE @,
                    !.lis = IF down THEN SrvClose(@) ELSE @,
                    !.pc = IF down THEN "zero" ELSE @,
                    !.op = [name |-> "stop", path |-> vurl],
                    !.res = NoRes, !.found = 0]
    /\ UNCHANGED <<coreVars, call, mk>>

\* WebServer.Close, up to ws.srv.Close()
WebServerClose ==
    /\ ws.pc = "idle"
    /\ ws' = [ws EXCEPT !.handlers = {}, !.srv = "shut", !.lis = SrvClose(@),
                !.pc = "zero", !.op = [name |-> "close", path |-> <<>>],
                !.res = NoRes, !.found = 0]
    /\ UNCHANGED <<coreVars, call, mk>>

\* ws.srv = http.Server{} and the return of StopServeURL or Close
SrvZero ==
    /\ ws.pc = "zero"
    /\ ws' = [ws EXCEPT !.srv = "zero", !.pc = "idle"]
    /\ UNCHANGED <<coreVars, call, mk>>

\* The goroutine of ServeURL calls ws.srv.Serve(listener): Serve closes the
\* listener and returns when Close was called on the server, and runs on it
\* otherwise, also on a server that was set to http.Server{} meanwhile.
ServeGo ==
    /\ ws.lis = "bound"
    /\ ws' = [ws EXCEPT !.lis = IF ws.srv = "shut" THEN "none" ELSE "serving"]
    /\ UNCHANGED <<coreVars, call, mk>>

\* WebServer.FindHandler(path)
FindHandler(path) ==
    /\ ws.pc = "idle"
    /\ \E order \in RangeOrders(ws.handlers) :
          ws' = [ws EXCEPT !.op = [name |-> "find", path |-> path], !.res = NoRes,
                             !.found = mymuxFindHandler(order, path)]
    /\ UNCHANGED <<coreVars, call, mk>>

\* ------------------------------------------------- MultiTransport on its own
\* The sinks (Transporter values) a caller may hand to a MultiTransport, the
\* longest transports slice considered, and the error texts a sink returns.
MaxSinks == 3
MaxTransports == 3
Sinks == 1..MaxSinks
Errs == {"e1", "e2"}
NilErr == "nil"

\* SingleTransportError{Transport, Err}
SingleTransportError(tx, err) == [Transport |-> tx, Err |-> err]
NoSterr == SingleTransportError(0, NilErr)
\* the zero multiTpErrorCollector: sterr.Err == nil, mterr.Errors == nil
NoMec == [sterr |-> NoSterr, mterr |-> <<>>]

\* (a collector that keeps the first error only)
mecAddFirstOnly(mec, tx, err) ==
    IF mec.sterr.Err # NilErr THEN mec
    ELSE [mec EXCEPT !.sterr = SingleTransportError(tx, err)]

\* multiTpErrorCollector.Add
mecAdd(mec, tx, err) ==
    LET thiserr == SingleTransportError(tx, err)
    IN  IF mec.mterr # <<>>
          THEN [mec EXCEPT !.mterr = Append(@, thiserr)]
        ELSE IF mec.sterr.Err # NilErr
          THEN [mec EXCEPT !.mterr = <<mec.sterr, thiserr>>]
        ELSE [mec EXCEPT !.sterr = thiserr]

\* the error values Publish returns: nil, *SingleTransportError, *MultiTransportError
NilError == [kind |-> "nil", Transport |-> 0, Err |-> NilErr, Errors |-> <<>>]

\* multiTpErrorCollector.GetError
GetError(mec) ==
    IF mec.mterr # <<>> THEN [NilError EXCEPT !.kind = "multi", !.Errors = mec.mterr]
    ELSE IF mec.sterr.Err # NilErr
      THEN [NilError EXCEPT !.kind = "single", !.Transport = mec.sterr.Transport,
                            !.Err = mec.sterr.Err]
    ELSE NilError

\* SingleTransportError.Error and MultiTransportError.Error; the text
\* fmt.Sprintf("%s (and %d more)", msg, n) is [first |-> msg, more |-> n]
ErrorText(e) ==
    IF e.kind = "single" THEN [first |-> e.Err, more |-> 0]
    ELSE IF Len(e.Errors) > 1
      THEN [first |-> e.Errors[1].Err, more |-> Len(e.Errors) - 1]
    ELSE [first |-> e.Errors[1].Err, more |-> 0]

NoPub == [pc |-> "idle", i |-> 0, calls |-> <<>>, outs |-> <<>>, mec |-> NoMec,
          res |-> NilError]
NoMut == [pc |-> "idle", op |-> "", tx |-> 0]

InitLib ==
    /\ pub = NoPub
    /\ mut = NoMut
    /\ removed = {}
    /\ codec = NoCodec
    /\ call = NoCall
    /\ mk = NoMk
    /\ ws = NoWs

\* what a MultiTransport caller leaves alone
notLib == <<impl, clients, closed, done, mxOwner, sess, started, loc, nShutdown,
            doneCloses, opts, password, passwordDisabled, srvMaxConns, srvClosed,
            cinfo, delivered, nSkips, firstAuth, codec, call, mk, ws>>

\* tp.mx is held for reading
RLocked == pub.pc \in {"loop", "blocked"}

\* Publish is called and takes tp.mx.RLock(); an RWMutex admits no new
\* reader while a writer waits for it.
PublishBegin ==
    /\ pub.pc \in {"idle", "done"}
    /\ mut.pc # "wait"
    /\ pub' = [NoPub EXCEPT !.pc = "loop", !.i = 1]
    /\ UNCHANGED <<transports, mut, removed>>
    /\ UNCHANGED notLib

\* (a loop that returns at the first error)
AfterCallBreak(i, out) == IF out = "ok" THEN i + 1 ELSE MaxTransports + 1

\* for _, tx := range tp.transports: the loop goes on to the next transport
\* whatever tx.Publish returned
AfterCall(i, out) == i + 1

\* One round of the loop: tx.Publish(...) returns nil or an error, which is
\* added to the collector, or it does not return.
PublishCall ==
    /\ pub.pc = "loop" /\ pub.i <= Len(transports)
    /\ LET tx == transports[pub.i]
       IN  \/ pub' = [pub EXCEPT !.pc = "blocked", !.calls = Append(@, tx)]
           \/ \E out \in {"ok"} \cup Errs :
                pub' = [pub EXCEPT !.calls = Append(@, tx),
                                   !.outs = Append(@, out),
                                   !.mec = IF out = "ok" THEN @ ELSE mecAdd(@, tx, out),
                                   !.i = AfterCall(@, out)]
    /\ UNCHANGED <<transports, mut, removed>>
    /\ UNCHANGED notLib

\* The loop is over: tp.mx.RUnlock() and return mec.GetError().
PublishReturn ==
    /\ pub.pc = "loop" /\ pub.i > Len(transports)
    /\ pub' = [pub EXCEPT !.pc = "done", !.res = GetError(pub.mec)]
    /\ UNCHANGED <<transports, mut, removed>>
    /\ UNCHANGED notLib

\* AddTransport(tx) or RemoveTransport(tx) is called and asks for tp.mx.Lock().
MutBegin(op, tx) ==
    /\ mut.pc = "idle"
    /\ op = "add" => Len(transports) < MaxTransports
    /\ mut' = [pc |-> "wait", op |-> op, tx |-> tx]
    /\ UNCHANGED <<transports, pub, removed>>
    /\ UNCHANGED notLib

\* The lock is granted: the slice is changed and the lock released.  What the
\* last Publish returned is kept until the slice changes.
MutApply ==
    /\ mut.pc = "wait" /\ ~RLocked
    /\ IF mut.op = "add"
         THEN /\ transports' = AddTransport(transports, mut.tx)
              /\ removed' = removed \ {mut.tx}
         ELSE /\ transports' = RemoveTransport(transports, mut.tx)
              /\ removed' = removed \cup {mut.tx}
    /\ mut' = NoMut
    /\ pub' = NoPub
    /\ UNCHANGED notLib

\* newProvider(opts, svc, tp), before Serve accepts anything
InitProv(o) ==
    /\ opts = o
    /\ password = o.Password
    /\ passwordDisabled = FALSE
    /\ srvMaxConns = o.MaxConns
    /\ srvClosed = FALSE
    /\ cinfo = [c \in Conns |-> NoConn]
    /\ transports = <<>>
    /\ delivered = {}
    /\ nSkips = 0
    /\ firstAuth = [seen |-> FALSE, cred |-> ""]
    /\ InitLib

\* ------------------------------------------------------------ behaviours
InitRegistry ==
    /\ clients = <<>>
    /\ closed = 0
    /\ done = FALSE
    /\ mxOwner = 0
    /\ sess = [c \in Clients |-> FreeSess]
    /\ started = {}
    /\ loc = [p \in Procs |-> IdleLoc]
    /\ nShutdown = 0
    /\ doneCloses = 0

\* A registry that is called directly: its provider, with the default
\* options, accepts nothing.
InitSvc == InitRegistry /\ InitProv(DefaultOptions)

Init == impl = "generic" /\ InitSvc

\* The steps inside Login, Logout and Close, however they were called.
LoginSteps(p) ==
    \/ LoginNewClient(p)
    \/ AddClientLock(p)
    \/ AddClientAppend(p)
    \/ LoginStart(p)
    \/ LoginRemove(p)

LogoutSteps(p) ==
    \/ LogoutFind(p)
    \/ LogoutCall(p)

CloseSteps(p) ==
    \/ BeginClose(p)
    \/ CloseCAS(p)
    \/ CloseSnap1(p)
    \/ CloseLoop(p)
    \/ CloseSnap2(p)
    \/ CloseWait(p)
    \/ CloseDone(p)

OnClientClosedSteps(p) ==
    \/ BeginOnClientClosed(p)
    \/ OnClientClosedCheck(p)
    \/ OnClientClosedRemove(p)

CmdHandlerSteps(p) ==
    \/ BeginCmdHandler(p)
    \/ CmdHandlerLookup(p)
    \/ CmdHandlerForward(p)
    \/ CmdHandlerSwitch(p)

\* The registry called through its Go API by concurrent goroutines, with
\* sessions of a generic Networker implementation.
Next ==
    \/ \E p \in Procs : BeginLogin(p) \/ LoginSteps(p)
    \/ \E p \in Procs : BeginLogout(p) \/ LogoutSteps(p)
    \/ \E p \in Procs : CloseSteps(p)
    \/ \E p \in Procs : OnClientClosedSteps(p)
    \/ \E c \in Clients : SessionDone(c)

Spec == Init /\ [][Next]_vars

\* The registry driven by command messages (Service.CmdHandler) of concurrent
\* connections, closed by Service.Close, with sessions of a generic Networker.
NextCmd ==
    \/ \E p \in Procs : CmdHandlerSteps(p)
    \/ \E p \in Procs : LoginSteps(p)
    \/ \E p \in Procs : LogoutSteps(p)
    \/ \E p \in Procs : CloseSteps(p)
    \/ \E p \in Procs : OnClientClosedSteps(p)
    \/ \E c \in Clients : SessionDone(c)

SpecCmd == Init /\ [][NextCmd]_vars

HandlerSteps(p) ==
    \/ BeginHandler(p)
    \/ HandlerLookup(p)
    \/ HandlerForward(p)

\* The registry with chat messages sent to it through Handler.
NextMsg ==
    \/ \E p \in Procs : HandlerSteps(p)
    \/ \E p \in Procs : BeginLogin(p) \/ LoginSteps(p)
    \/ \E p \in Procs : BeginLogout(p) \/ LogoutSteps(p)
    \/ \E p \in Procs : CloseSteps(p)
    \/ \E p \in Procs : OnClientClosedSteps(p)
    \/ \E c \in Clients : SessionDone(c)

SpecMsg == Init /\ [][NextMsg]_vars

\* The registry with the sessions of package dummy.  dummy.Client calls
\* nothing of the registry, its Start cannot fail, and it is closed when its
\* Close returns.  A goroutine that is inside a call keeps running.
InitDummy == impl = "dummy" /\ InitSvc

RunningDummy(p) ==
    \/ LoginNewClient(p)
    \/ AddClientLock(p)
    \/ AddClientAppend(p)
    \/ LoginStart(p)
    \/ LogoutSteps(p)
    \/ CloseCAS(p)
    \/ CloseSnap1(p)
    \/ CloseLoop(p)
    \/ CloseSnap2(p)
    \/ CloseWait(p)
    \/ CloseDone(p)

NextDummy ==
    \/ \E p \in Procs : BeginLogin(p) \/ BeginLogout(p) \/ BeginClose(p)
    \/ \E p \in Procs : RunningDummy(p)

SpecDummy == InitDummy /\ [][NextDummy]_vars /\ \A p \in Procs : WF_vars(RunningDummy(p))

\* The provider serving connections, run with any of the options; what the
\* registry does with a dispatched message is not followed here.
InitProvider == impl = "generic" /\ InitRegistry /\ \E o \in OptionSets : InitProv(o)

NextProvider ==
    \E c \in Conns :
        \/ NewConn(c)
        \/ Recv(c)
        \/ HandlerCheck(c)
        \/ HandlerAdmit(c)
        \/ HandlerAdmitSkip(c)
        \/ HandlerDispatch(c)
        \/ ConnClosed(c)

SpecProvider == InitProvider /\ [][NextProvider]_vars

\* Message values are encoded and the bytes parsed again.
NextCodec ==
    \/ Encode
    \/ Garble
    \/ Parse

SpecCodec == Init /\ [][NextCodec]_vars

\* A MultiTransport whose Publish, AddTransport and RemoveTransport are called
\* by two goroutines; the scheduler lets each of them run when it can.
NextFanOut ==
    \/ PublishBegin
    \/ PublishCall
    \/ PublishReturn
    \/ \E tx \in Sinks : MutBegin("add", tx)
    \/ \E tx \in Sinks : MutBegin("remove", tx)
    \/ MutApply

SpecFanOut ==
    /\ Init /\ [][NextFanOut]_vars
    /\ WF_vars(PublishCall \/ PublishReturn)
    /\ WF_vars(MutApply)

\* stdchat.IsType called with any two strings.
NextIsType == IsTypeCall

SpecIsType == Init /\ [][NextIsType]_vars

\* One process calling service.MakeID while its clock advances.
NextIDs ==
    \/ XorIDInit
    \/ \E reqID \in ReqIDs : MakeIDCall(reqID)
    \/ \E k \in SkipLens : MakeIDSkip(k)
    \/ \E b \in TickBytes : Tick(b)

SpecIDs == Init /\ [][NextIDs]_vars

\* A WebServer whose methods are called one after the other, and the
\* goroutine serving its listener.
NextWeb ==
    \/ WsConfigure
    \/ \E network \in WsNetworks, pathSuffix \in WsSuffixes, handler \in WsHandlers,
          listen \in {"ok", "err"} : ServeURL(network, pathSuffix, handler, listen)
    \/ \E network \in WsNetworks, pathSuffix \in WsSuffixes : StopServeURL(network, pathSuffix)
    \/ WebServerClose
    \/ SrvZero
    \/ ServeGo
    \/ \E path \in ReqPaths : FindHandler(path)

SpecWeb == Init /\ [][NextWeb]_vars

\* ================================================================ claims
Registered == SetOf(clients)
\* p has returned from a call of operation name
Ret(p, name) == loc[p].pc = "idle" /\ loc[p].op.name = name
\* this step is a step of p
StepOf(p) == loc'[p] # loc[p]
\* the registered sessions that report network identity id
WithNetworkID(id) == {c \in Registered : NetworkID(c) = id}

\* ---- C1
\* C1: addClient on an open registry rejects the new session with "network ID
\* is in use" exactly when some already registered session reports the same
\* NetworkID() as the new one; a session whose identity differs from every
\* registered one is registered.  Stated for the step of addClient that tests
\* and appends.
C1_RejectedIffSameIdentity ==
    [][\A p \in Observed :
        (loc[p].pc = "add_append" /\ StepOf(p)) =>
            /\ (loc'[p].pc = "idle" /\ loc'[p].res = "network ID is in use")
                  <=> (WithNetworkID(NetworkID(loc[p].cur)) # {})
            /\ (WithNetworkID(NetworkID(loc[p].cur)) = {})
                  => (loc[p].cur \in SetOf(clients'))]_vars

\* ---- C2
\* C2 as claimed: no session is ever added to the registry after the closed
\* flag is set.
C2_NeverAddedAfterClosed ==
    [][closed = 1 => SetOf(clients') \subseteq SetOf(clients)]_vars

\* What does hold of a late Login: a Login that is called after the closed flag was set fails,
\* with the closed-registry error unless its constructor failed first, and no
\* step of it adds a session to the registry.
C2_LateLoginFails ==
    [][\A p \in Observed :
        (loc[p].late /\ loc[p].op.name = "Login" /\ StepOf(p) /\ loc[p].pc # "idle") =>
            /\ SetOf(clients') \subseteq SetOf(clients)
            /\ loc'[p].pc \in {"idle", "add_lock"}
            /\ loc'[p].pc = "idle" =>
                  loc'[p].res \in {"service is closed", "newClient error"}
            /\ (loc[p].pc = "add_lock") =>
                  (loc'[p].pc = "idle" /\ loc'[p].res = "service is closed")]_vars

C2_Witness ==
    \E p \in Observed :
        /\ Ret(p, "Login") /\ loc[p].late
        /\ loc[p].res = "service is closed"
        /\ Registered # {}

\* ---- C3
\* C3: when Start of the newly registered session fails, Login returns the
\* error of Start, its session is not registered when it returns, and the
\* steps of that Login leave every other session of the registry registered.
C3_FailedStartDeregisters ==
    [][\A p \in Observed :
        /\ (loc'[p].pc = "idle" /\ loc'[p].res = "start error") =>
              loc'[p].cur \notin SetOf(clients')
        /\ (loc[p].pc = "login_remove" /\ StepOf(p)) =>
              /\ loc'[p].pc = "idle" /\ loc'[p].res = "start error"
              /\ <<"Start", loc[p].cur>> \in loc[p].calls
              /\ SetOf(clients') = SetOf(clients) \ {loc[p].cur}
        /\ (loc[p].pc = "login_start" /\ StepOf(p) /\ loc'[p].pc = "idle") =>
              (loc'[p].res = "ok" /\ loc[p].cur \in started')]_vars

C3_Witness ==
    \E p \in Observed :
        /\ Ret(p, "Login") /\ loc[p].res = "start error"
        /\ loc[p].cur # NoClient /\ loc[p].cur \notin Registered
        /\ <<"Start", loc[p].cur>> \in loc[p].calls

\* ---- C4
\* C4: a Login whose new session reports a network identity that is already
\* registered fails with "network ID is in use" and leaves the registry as it
\* was: the same sessions in the same state, the same answer of
\* GetClientByNetwork for that identity, and no Start, Close or Logout invoked
\* by the failed Login.
C4_DuplicateLoginNoEffect ==
    [][\A p \in Observed :
        (/\ loc[p].pc = "add_append" /\ StepOf(p)
         /\ WithNetworkID(NetworkID(loc[p].cur)) # {}) =>
            /\ loc'[p].pc = "idle" /\ loc'[p].res = "network ID is in use"
            /\ loc'[p].calls = {}
            /\ clients' = clients
            /\ started' = started
            /\ \A c \in Registered : sess'[c] = sess[c]
            /\ \A id \in NetIDs : (GetClientByNetwork(id))' = GetClientByNetwork(id)]_vars

C4_Witness ==
    \E p \in Observed :
        /\ Ret(p, "Login") /\ loc[p].res = "network ID is in use"
        /\ loc[p].calls = {}
        /\ GetClientByNetwork(loc[p].op.net) # NoClient

\* ---- C5
\* C5: a Close call on an open registry invokes Close() on every registered
\* session, also when one of them returns an error, and once the completion
\* signal of every session has fired the registry is marked done.  Only the
\* call that performs the shutdown closes svc.done, so when that call has
\* returned and every registered session is closed, svc.done is closed.
C5_PerformedCloseMarksDone ==
    \A p \in Observed :
        (/\ Ret(p, "Close") /\ loc[p].res # "already closed"
         /\ \A c \in Registered : ClientClosed(c)) => done

\* ---- C6
\* C6: whatever the interleaving of Close calls, at most one call gets past
\* the compare-and-swap (performs the shutdown), the closed flag is set exactly
\* when one did, every other call returns "already closed", and svc.done is
\* closed at most once (a second close of the channel would panic).
ClosePerforming == {"close_snap1", "close_loop", "close_snap2", "close_wait", "close_done"}

C6_OneShutdown ==
    /\ nShutdown <= 1
    /\ doneCloses <= 1
    /\ (closed = 1) <=> (nShutdown = 1)
    /\ done => (doneCloses = 1 /\ closed = 1)
    /\ Cardinality({p \in Procs : loc[p].pc \in ClosePerforming}) <= nShutdown
    /\ \A p \in Observed :
          Ret(p, "Close") => loc[p].res \in {"already closed", "ok", "close error"}
    /\ \A p \in Observed :
          (Ret(p, "Close") /\ (\E q \in Procs \ {p} : loc[q].pc \in ClosePerforming))
              => loc[p].res = "already closed"

C6_Witness ==
    \E p \in Observed :
        /\ Ret(p, "Close") /\ loc[p].res = "already closed"
        /\ \E q \in Procs \ {p} : loc[q].pc = "close_wait"

\* ---- C7
\* C7: OnClientClosed(session) panics with "client not closed" and leaves the
\* registry as it is when session.Closed() is false; when it is true it
\* removes that session and leaves every other registered session registered.
C7_OnClientClosed ==
    [][\A p \in Observed :
        /\ (loc[p].pc = "occ_check" /\ StepOf(p)) =>
              /\ clients' = clients
              /\ ~ClientClosed(loc[p].cur) =>
                    (loc'[p].pc = "idle" /\ loc'[p].res = "panic: client not closed")
              /\ ClientClosed(loc[p].cur) => loc'[p].pc = "occ_remove"
        /\ (loc[p].pc = "occ_remove" /\ StepOf(p)) =>
              /\ ClientClosed(loc[p].cur)
              /\ loc'[p].pc = "idle" /\ loc'[p].res = "ok"
              /\ SetOf(clients') = SetOf(clients) \ {loc[p].cur}]_vars

C7_Witness ==
    \E p \in Observed :
        /\ Ret(p, "OnClientClosed") /\ loc[p].res = "ok"
        /\ loc[p].cur \in started /\ ClientClosed(loc[p].cur)
        /\ loc[p].cur \notin Registered

\* ---- C8
\* C8: Logout(target) invokes Logout on one registered session whose network
\* identity or connection identity equals target and on no other session; when
\* no registered session matches it returns the not-found error and invokes
\* Logout on no session.
Matching(target) == {c \in Registered : NetworkID(c) = target \/ ConnID(c) = target}

C8_LogoutTarget ==
    [][\A p \in Observed :
        /\ (loc[p].pc = "logout_find" /\ StepOf(p)) =>
              /\ loc'[p].calls = {}
              /\ (Matching(Target(loc[p])) = {}) =>
                    (loc'[p].pc = "idle" /\ loc'[p].res = "ID not found")
              /\ (Matching(Target(loc[p])) # {}) =>
                    (loc'[p].pc = "logout_call" /\ loc'[p].cur \in Matching(Target(loc[p])))
        /\ (loc[p].pc = "logout_call" /\ StepOf(p)) =>
              /\ loc'[p].pc = "idle" /\ loc'[p].res \in {"ok", "logout error"}
              /\ loc'[p].calls = {<<"Logout", loc[p].cur>>}
              /\ (NetworkID(loc[p].cur) = Target(loc[p]) \/ ConnID(loc[p].cur) = Target(loc[p]))]_vars

C8_Witness ==
    \E p \in Observed : \E c \in Clients :
        /\ Ret(p, "Logout") /\ loc[p].res = "ok"
        /\ loc[p].op.net = "k1"
        /\ loc[p].calls = {<<"Logout", c>>}
        /\ ConnID(c) = "k1" /\ NetworkID(c) # "k1"

\* ---- C9
\* C9: a session that is registered and has reached closed is eventually
\* deregistered (so that its network identity can be registered again).
\* Checked for the sessions of package dummy.
C9_ClosedSessionDeregistered ==
    \A c \in Clients : (c \in Registered /\ ClientClosed(c)) ~> (c \notin Registered)

\* ---- C10
\* C10: CmdHandler with a command that carries a network identity takes no
\* step of a registry-level command and changes nothing of the registry: it
\* looks the identity up and then either invokes the CmdHandler of the
\* registered session that reports it, and publishes nothing, or, when there
\* is none, publishes one "network not found" error and invokes nothing.
C10_ForwardOnly ==
    [][\A p \in Observed :
        (/\ loc[p].op.name = "CmdHandler" /\ loc[p].op.net # ""
         /\ loc[p].pc # "idle" /\ StepOf(p)) =>
            /\ loc[p].pc \in {"cmd", "cmd_forward"}
            /\ <<clients, closed, done, sess, started>>' = <<clients, closed, done, sess, started>>
            /\ (loc[p].pc = "cmd" /\ WithNetworkID(loc[p].op.net) = {}) =>
                  /\ loc'[p].pc = "idle"
                  /\ loc'[p].calls = {}
                  /\ loc'[p].pubs = <<ErrorEvent("network not found: " \o loc[p].op.net)>>
            /\ (loc[p].pc = "cmd" /\ WithNetworkID(loc[p].op.net) # {}) =>
                  /\ loc'[p].pc = "cmd_forward"
                  /\ loc'[p].cur \in WithNetworkID(loc[p].op.net)
                  /\ loc'[p].calls = {} /\ loc'[p].pubs = <<>>
            /\ (loc[p].pc = "cmd_forward") =>
                  /\ loc'[p].pc = "idle"
                  /\ loc'[p].calls = {<<"CmdHandler", loc[p].cur>>}
                  /\ NetworkID(loc[p].cur) = loc[p].op.net
                  /\ loc'[p].pubs = <<>>]_vars

C10_Witness ==
    \E p \in Observed : \E c \in Clients :
        /\ Ret(p, "CmdHandler")
        /\ loc[p].op.net = "n1" /\ loc[p].op.cmd = "login" /\ Len(loc[p].op.args) = 3
        /\ loc[p].calls = {<<"CmdHandler", c>>}
        /\ NetworkID(c) = "n1" /\ c \in Registered
        /\ loc[p].pubs = <<>>

\* ---- C11
\* The positions of a Login and of a Logout in progress.
LoginPcs == {"login_new", "add_lock", "add_append", "login_start", "login_remove"}
LogoutPcs == {"logout_find", "logout_call"}

\* C11: for a command without network identity, CmdHandler goes on to Login
\* only for "login" with at least 3 arguments and to Logout only for "logout"
\* with at least 1 argument; with fewer arguments, and for a command other than
\* login, logout and ping, it publishes one error event, invokes no session
\* method and leaves the registry and every session as they are; ping
\* publishes its echo and nothing else.
C11_RegistryCommands ==
    [][\A p \in Observed :
        (/\ loc[p].op.name = "CmdHandler" /\ loc[p].op.net = ""
         /\ loc[p].pc = "cmd" /\ StepOf(p)) =>
            LET msg == loc[p].op
                quiet == /\ loc'[p].pc = "idle" /\ loc'[p].calls = {}
                         /\ <<clients, closed, done, sess, started>>'
                               = <<clients, closed, done, sess, started>>
            IN  /\ loc'[p].pc \in LoginPcs <=> (msg.cmd = "login" /\ Len(msg.args) >= 3)
                /\ loc'[p].pc \in LogoutPcs <=> (msg.cmd = "logout" /\ Len(msg.args) >= 1)
                /\ (msg.cmd = "login" /\ Len(msg.args) < 3) =>
                      /\ quiet
                      /\ loc'[p].pubs = <<ErrorEvent("command login error: expected 3 args")>>
                /\ (msg.cmd = "logout" /\ Len(msg.args) < 1) =>
                      /\ quiet
                      /\ loc'[p].pubs = <<ErrorEvent("command logout error: expected 1 args")>>
                /\ (msg.cmd = "ping") =>
                      /\ quiet
                      /\ Len(loc'[p].pubs) = 1 /\ loc'[p].pubs[1].node = "other"
                /\ (msg.cmd \notin {"login", "logout", "ping"}) =>
                      /\ quiet
                      /\ loc'[p].pubs = <<ErrorEvent("unhandled command: " \o msg.cmd)>>]_vars

C11_Witness ==
    \E p \in Observed :
        /\ Ret(p, "CmdHandler") /\ loc[p].op.net = ""
        /\ loc[p].op.cmd = "login" /\ Len(loc[p].op.args) = 2
        /\ loc[p].pubs = <<ErrorEvent("command login error: expected 3 args")>>
        /\ loc[p].calls = {}
        /\ Registered # {}

\* ---- C12
\* C12: Handler invokes the Handler of a session only for a message with a
\* type and a network identity that a registered session reports, and then of
\* that session, once; a message without type or without network identity
\* yields the one error "invalid message", a message for an identity that is
\* not registered the one error "network not found", and no session's Handler
\* is invoked for either.
C12_HandlerRouting ==
    [][\A p \in Observed :
        (loc[p].op.name = "Handler" /\ loc[p].pc # "idle" /\ StepOf(p)) =>
            LET msg == loc[p].op IN
            /\ loc[p].pc \in {"handler", "handler_forward"}
            /\ <<clients, closed, done, sess, started>>' = <<clients, closed, done, sess, started>>
            /\ (loc[p].pc = "handler" /\ (msg.type = "" \/ msg.net = "")) =>
                  /\ loc'[p].pc = "idle" /\ loc'[p].calls = {}
                  /\ loc'[p].pubs = <<ErrorEvent("invalid message")>>
            /\ (loc[p].pc = "handler" /\ msg.type # "" /\ msg.net # ""
                   /\ WithNetworkID(msg.net) = {}) =>
                  /\ loc'[p].pc = "idle" /\ loc'[p].calls = {}
                  /\ loc'[p].pubs = <<ErrorEvent("network not found: " \o msg.net)>>
            /\ (loc[p].pc = "handler" /\ msg.type # "" /\ msg.net # ""
                   /\ WithNetworkID(msg.net) # {}) =>
                  /\ loc'[p].pc = "handler_forward"
                  /\ loc'[p].cur \in WithNetworkID(msg.net)
                  /\ loc'[p].calls = {} /\ loc'[p].pubs = <<>>
            /\ (loc[p].pc = "handler_forward") =>
                  /\ loc'[p].pc = "idle"
                  /\ loc'[p].calls = {<<"Handler", loc[p].cur>>}
                  /\ NetworkID(loc[p].cur) = msg.net
                  /\ msg.type # "" /\ msg.net # ""
                  /\ loc'[p].pubs = <<>>]_vars

C12_Witness ==
    \E p \in Observed : \E c \in Clients :
        /\ Ret(p, "Handler") /\ loc[p].op.type = "msg" /\ loc[p].op.net = "n2"
        /\ loc[p].calls = {<<"Handler", c>>}
        /\ NetworkID(c) = "n2" /\ c \in Registered
        /\ loc[p].pubs = <<>>

\* ---- C13
\* C13: a lookup made for a dispatch (by Handler or CmdHandler) returns a
\* session only if the Start of that session has returned nil.
C13_LookupOnlyStarted ==
    [][\A p \in Procs :
        (/\ loc[p].pc \in {"handler", "cmd"}
         /\ loc'[p].pc \in {"handler_forward", "cmd_forward"}) =>
            loc'[p].cur \in started]_vars

\* ---- C14
\* the connections whose transport is in the fan-out
InFanOut == SetOf(transports)
\* a password or the auto-password mode is configured
AuthConfigured == opts.AutoPassword \/ opts.Password # ""
\* c is an open connection
Open(c) == cinfo[c].st = "open"

\* C14: the transport of a connection is in the fan-out only if the
\* connection is authenticated; with neither password nor auto-password
\* configured an accepted connection is authenticated and in the fan-out, and
\* otherwise it is neither until its handshake (provider-auth or the skip)
\* has succeeded.
C14_FanOutOnlyAuthed ==
    \A c \in Conns :
        /\ c \in InFanOut => (cinfo[c].authed /\ Open(c))
        /\ (Open(c) /\ ~AuthConfigured) => (cinfo[c].authed /\ c \in InFanOut)
        /\ (Open(c) /\ AuthConfigured /\ cinfo[c].authed) =>
              (cinfo[c].skipped \/ firstAuth.seen)
        /\ (Open(c) /\ ~cinfo[c].authed) => c \notin InFanOut

C14_Witness ==
    /\ opts.AutoPassword /\ opts.Password = ""
    /\ Open(1) /\ ~cinfo[1].authed /\ 1 \notin InFanOut
    /\ cinfo[1].priv # <<>>
    /\ Open(2) /\ cinfo[2].authed /\ 2 \in InFanOut

\* ---- C15
\* C15: a request is passed to service.DispatchMsg only on an authenticated
\* connection: it was received on a connection that was authenticated already,
\* or it is the request the skip was granted for, and then the connection was
\* marked authenticated before the dispatch.
C15_DispatchOnlyAuthed ==
    [][\A c \in Conns :
        /\ cinfo'[c].pc = "dispatch" => cinfo'[c].authed
        /\ (cinfo'[c].pc = "dispatch" /\ cinfo[c].pc # "dispatch") =>
              \/ cinfo[c].pc = "idle" /\ cinfo[c].authed
              \/ cinfo[c].pc = "admit_skip" /\ cinfo'[c].skipped
        /\ (cinfo'[c].ndisp # cinfo[c].ndisp) =>
              (cinfo[c].pc = "dispatch" /\ cinfo[c].authed)]_vars

C15_Witness ==
    \E c \in ObservedConns :
        /\ cinfo[c].skipped /\ cinfo[c].authed /\ cinfo[c].ndisp = 1
        /\ cinfo[c].pc = "idle"
        /\ \E d \in Conns \ {c} : Open(d) /\ ~cinfo[d].authed

\* ---- C16
\* the request in hand of c is a provider-auth command
IsAuth(c) == IsCmd(cinfo[c].msg) /\ cinfo[c].msg.cmd = "provider-auth"

\* C16: on an unauthenticated connection a provider-auth that does not carry
\* exactly one argument, or that carries a network identity, is answered with
\* an error on the connection's transport and does not authenticate it.
C16_AuthExactlyOneArg ==
    [][\A c \in ObservedConns :
        (/\ cinfo[c].pc = "check" /\ cinfo'[c] # cinfo[c] /\ IsAuth(c)
         /\ (Len(cinfo[c].msg.args) # 1 \/ cinfo[c].msg.net # "")) =>
            /\ cinfo'[c].pc = "idle" /\ ~cinfo'[c].authed
            /\ Len(cinfo'[c].priv) = 1 /\ cinfo'[c].priv[1].type = "error"]_vars

\* ---- C17
AuthErrors == {"unexpected command args", "cannot provider-auth to a network",
               "authentication failed"}

\* C17: a provider-auth that fails publishes one error, on the transport of
\* its connection; the fan-out delivers nothing, the set of transports in the
\* fan-out stays as it is and does not hold the connection, and the connection
\* is unauthenticated and ready for its next request.
C17_FailedAuthPrivate ==
    [][\A c \in ObservedConns :
        (/\ cinfo[c].pc = "check" /\ cinfo'[c] # cinfo[c] /\ IsAuth(c)
         /\ cinfo'[c].pc # "admit") =>
            /\ cinfo'[c].pc = "idle" /\ ~cinfo'[c].authed /\ Open(c)
            /\ \E t \in AuthErrors : cinfo'[c].priv = <<ErrorEvent(t)>>
            /\ delivered' = delivered
            /\ transports' = transports /\ c \notin InFanOut
            /\ \A d \in Conns \ {c} : cinfo'[d] = cinfo[d]]_vars

C17_Witness ==
    \E c \in ObservedConns : \E d \in Conns \ {c} :
        /\ cinfo[c].priv = <<ErrorEvent("authentication failed")>>
        /\ cinfo[c].pc = "idle" /\ ~cinfo[c].authed /\ Open(c)
        /\ c \notin InFanOut
        /\ d \in InFanOut /\ d \notin delivered

\* ---- C18
\* C18: with a password configured and auto-password off, a provider-auth
\* (one argument, no network identity) with another credential fails and leaves
\* the connection unauthenticated; with the password it authenticates the
\* connection and adds its transport to the fan-out, which did not hold it;
\* from then on every request with data is passed to the dispatcher, and the
\* connection does not become unauthenticated again.
C18_ConfiguredPassword ==
    [][(opts.Password # "" /\ ~opts.AutoPassword) =>
        \A c \in Conns :
            LET msg == cinfo[c].msg
                stepOfC == cinfo'[c] # cinfo[c]
            IN
            /\ (/\ cinfo[c].pc = "check" /\ stepOfC /\ IsAuth(c)
                /\ Len(msg.args) = 1 /\ msg.net = "") =>
                  IF msg.args[1] = opts.Password
                    THEN cinfo'[c].pc = "admit" /\ password' = opts.Password
                    ELSE cinfo'[c].pc = "idle" /\ ~cinfo'[c].authed
                         /\ transports' = transports
            /\ (cinfo[c].pc = "check" /\ stepOfC /\ ~IsAuth(c)) =>
                  (cinfo'[c].pc = "idle" /\ ~cinfo'[c].authed)
            /\ (cinfo[c].pc = "admit" /\ stepOfC) =>
                  /\ cinfo'[c].authed /\ cinfo'[c].pc = "idle"
                  /\ c \notin InFanOut
                  /\ transports' = Append(transports, c)
            /\ (cinfo[c].authed /\ cinfo[c].pc = "idle" /\ stepOfC /\ Open(c)
                   /\ cinfo'[c].st = "open") =>
                  (cinfo'[c].msg.kind # "empty" => cinfo'[c].pc = "dispatch")
            /\ (cinfo[c].authed /\ cinfo[c].pc = "idle" /\ Open(c)
                   /\ cinfo'[c].st = "open") => c \in SetOf(transports')
            /\ cinfo[c].authed => cinfo'[c].authed]_vars

C18_Witness ==
    \E c \in ObservedConns :
        /\ opts.Password = "p1" /\ ~opts.AutoPassword
        /\ cinfo[c].authed /\ ~cinfo[c].skipped /\ Open(c)
        /\ cinfo[c].ndisp = MaxCount /\ cinfo[c].pc = "idle"
        /\ c \in InFanOut
        /\ \E d \in Conns \ {c} : Open(d) /\ ~cinfo[d].authed

\* ---- C19
\* C19: in auto-password mode with no password configured, once a
\* provider-auth has succeeded, a later provider-auth (with an argument and no
\* network identity) succeeds if and only if it presents the credential of
\* the first one.
C19_FirstCredentialWins ==
    [][(opts.AutoPassword /\ opts.Password = "" /\ firstAuth.seen) =>
        \A c \in Conns :
            (/\ cinfo[c].pc = "check" /\ cinfo'[c] # cinfo[c] /\ IsAuth(c)
             /\ Len(cinfo[c].msg.args) >= 1 /\ cinfo[c].msg.net = "") =>
                (cinfo'[c].pc = "admit" <=> cinfo[c].msg.args[1] = firstAuth.cred)]_vars

\* ---- C20
\* C20: PasswordCheckSkip returns true at most once in the life of the
\* provider, whatever the connections send and in whatever order, so at most
\* one connection is admitted by the skip.
C20_SkipAtMostOnce ==
    /\ nSkips <= 1
    /\ Cardinality({c \in Conns : cinfo[c].skipped \/ cinfo[c].pc = "admit_skip"}) <= nSkips
    /\ nSkips = 1 => passwordDisabled

C20_Witness ==
    \E c \in ObservedConns : \E d \in Conns \ {c} :
        /\ nSkips = 1 /\ cinfo[d].skipped /\ cinfo[d].authed
        /\ Open(c) /\ ~cinfo[c].authed /\ cinfo[c].pc = "idle"
        /\ cinfo[c].priv =
             <<ErrorEvent("must authenticate with the provider first (provider-auth)")>>

\* ---- C21
\* the first connection the server accepted (NewConn takes the lowest unused
\* slot and never reuses one)
FirstConn == CHOOSE c \in Conns : \A d \in Conns : c <= d
\* the step of c's handler that grants the skip to the request in hand
SkipGranted(c) == cinfo[c].pc = "check" /\ cinfo'[c].pc = "admit_skip"

\* C21: the skip admits a request only if it is the first request received on
\* the first accepted connection; a request that is not a provider-auth and
\* arrives on a later connection, or after another request of its connection,
\* is never admitted by the skip.
C21_SkipOnlyFirstOfFirst ==
    [][\A c \in Conns :
        SkipGranted(c) => (c = FirstConn /\ cinfo[c].nreq = 1)]_vars

\* What does hold of the skip: it is granted in auto-password mode only, to a
\* request that is not a provider-auth, while no password is set and no skip
\* was granted before.
C21_SkipGuard ==
    [][\A c \in Conns :
        SkipGranted(c) =>
            /\ opts.AutoPassword /\ password = "" /\ ~passwordDisabled
            /\ ~IsAuth(c) /\ cinfo[c].msg.kind = "json"]_vars

\* ---- C22
\* another connection has authenticated with a provider-auth
AuthedByCommand(c) ==
    \E d \in Conns \ {c} : cinfo[d].authed /\ ~cinfo[d].skipped

\* C22: once a connection has authenticated with provider-auth in
\* auto-password mode, or when a password was configured, no other connection
\* is authenticated by the skip: its request that is not a provider-auth is
\* answered 'must authenticate' and the connection stays unauthenticated.
C22_NoSkipAfterAuth ==
    [][\A c \in Conns :
        (/\ cinfo[c].pc = "check" /\ cinfo'[c] # cinfo[c]
         /\ cinfo[c].msg.kind = "json" /\ ~IsAuth(c)
         /\ \/ opts.Password # ""
            \/ opts.AutoPassword /\ AuthedByCommand(c)) =>
            /\ ~SkipGranted(c)
            /\ cinfo'[c].pc = "idle" /\ ~cinfo'[c].authed
            /\ c \in ObservedConns => cinfo'[c].priv =
                 <<ErrorEvent("must authenticate with the provider first (provider-auth)")>>]_vars

\* ---- C23
\* the step that closes connection c
Closing(c) == cinfo[c].st = "open" /\ cinfo'[c].st = "closed"

\* C23: when a connection closes, its transport leaves the fan-out (nothing
\* changes there if it was never added) and the other transports stay; no
\* later publish reaches a closed connection; with AutoExit the close of the
\* last open connection closes the registry, and without AutoExit the close
\* of a connection never does.
C23_ConnClosed ==
    [][\A c \in Conns :
        /\ Closing(c) =>
              /\ c \notin SetOf(transports')
              /\ c \notin InFanOut => transports' = transports
              /\ \A d \in Conns \ {c} : d \in SetOf(transports') <=> d \in InFanOut
              /\ (opts.AutoExit /\ \A d \in Conns \ {c} : ~Open(d)) =>
                    (closed' = 1 /\ done' /\ srvClosed')
              /\ (opts.AutoExit /\ \E d \in Conns \ {c} : Open(d)) =>
                    (closed' = closed /\ srvClosed' = srvClosed)
              /\ ~opts.AutoExit => (closed' = closed /\ closed = 0)
        /\ cinfo[c].st = "closed" =>
              /\ cinfo'[c].st = "closed" /\ c \notin SetOf(transports')
              /\ c \in delivered' => c \in delivered]_vars

C23_Witness ==
    /\ ~opts.AutoExit /\ closed = 0 /\ ~srvClosed
    /\ cinfo[1].st = "closed" /\ cinfo[1].authed /\ 1 \notin delivered
    /\ Open(2) /\ 2 \in InFanOut /\ 2 \in delivered

C23_WitnessAutoExit ==
    /\ opts.AutoExit /\ closed = 1 /\ srvClosed
    /\ \A c \in Conns : cinfo[c].st = "closed" /\ cinfo[c].authed

\* ---- C24
\* the step in which Publish returns
PublishReturns == pub.pc = "loop" /\ pub'.pc = "done"

\* C24: MultiTransport.Publish calls Publish on every transport of the set,
\* in slice order, whatever the calls before returned: an error does not end
\* the loop.
C24_PublishCallsAll ==
    [][/\ PublishReturns =>
            (pub'.calls = transports /\ Len(pub'.outs) = Len(transports))
       /\ (pub.pc = "loop" /\ pub'.pc = "loop" /\ pub' # pub) =>
            (pub'.i = pub.i + 1 /\ pub'.calls = Append(pub.calls, transports[pub.i]))]_vars

C24_Witness ==
    /\ pub.pc = "done"
    /\ pub.calls = <<1, 2, 3>>
    /\ pub.outs = <<"e1", "ok", "e2">>

\* ---- C25
\* the calls that returned an error, in call order
FailedCalls(calls, outs) ==
    LET idx == SelectSeq([i \in 1..Len(outs) |-> i], LAMBDA i : outs[i] # "ok")
    IN  [j \in 1..Len(idx) |-> SingleTransportError(calls[idx[j]], outs[idx[j]])]

\* C25: of the calls of one Publish, k return an error: Publish returns nil
\* for k = 0; for k = 1 a SingleTransportError with the failing sink and its
\* error; for k > 1 a MultiTransportError whose Errors are the k failing calls
\* with their errors, in call order, each sink of a set without duplicates
\* once, and whose text is the text of the first error and '(and k-1 more)'.
C25_Aggregation ==
    pub.pc = "done" =>
        LET F == FailedCalls(pub.calls, pub.outs)
            k == Len(F)
        IN  /\ k = 0 => pub.res = NilError
            /\ k = 1 => /\ pub.res.kind = "single"
                        /\ pub.res.Transport = F[1].Transport
                        /\ pub.res.Err = F[1].Err
                        /\ ErrorText(pub.res) = [first |-> F[1].Err, more |-> 0]
            /\ k > 1 => /\ pub.res.kind = "multi"
                        /\ pub.res.Errors = F
                        /\ ErrorText(pub.res) = [first |-> F[1].Err, more |-> k - 1]
                        /\ Cardinality(SetOf(pub.calls)) = Len(pub.calls) =>
                              \A tx \in Sinks :
                                 Cardinality({j \in 1..Len(pub.res.Errors) :
                                                 pub.res.Errors[j].Transport = tx}) <= 1

C25_Witness ==
    /\ pub.pc = "done"
    /\ pub.calls = <<1, 2, 3>>
    /\ pub.outs = <<"e1", "e2", "ok">>
    /\ pub.res.kind = "multi"
    /\ ErrorText(pub.res) = [first |-> "e1", more |-> 1]

C25_WitnessSingle ==
    /\ pub.pc = "done"
    /\ pub.calls = <<1, 2, 3>>
    /\ pub.outs = <<"ok", "e2", "ok">>
    /\ pub.res.kind = "single" /\ pub.res.Transport = 2

\* ---- C26
\* the step in which Publish calls the Publish of a sink
CallsSink == pub.pc = "loop" /\ Len(pub'.calls) = Len(pub.calls) + 1

\* C26: one Publish calls each registered transport at most once, also when
\* the transport was passed to AddTransport more than once, and never a
\* transport that was removed.
C26_AtMostOncePerTransport ==
    [][CallsSink =>
        LET tx == transports[pub.i]
        IN  tx \notin SetOf(pub.calls) /\ tx \notin removed]_vars

\* What does hold: one Publish calls each entry of the slice once, so a
\* transport that is in the slice once is called once.
C26_OncePerEntry ==
    [][CallsSink =>
        LET tx == transports[pub.i]
        IN  /\ pub.calls = SubSeq(transports, 1, pub.i - 1)
            /\ Cardinality({i \in 1..Len(transports) : transports[i] = tx}) = 1 =>
                  tx \notin SetOf(pub.calls)]_vars

\* ---- C27
\* C27: a sink whose Publish does not return does not stall the fan-out: the
\* other sinks of the set still get the event, and a pending AddTransport or
\* RemoveTransport still completes.
C27_BlockedSinkDoesNotStall ==
    /\ \A tx \in Sinks :
          (pub.pc = "blocked" /\ tx \in SetOf(transports)) ~> (tx \in SetOf(pub.calls))
    /\ (mut.pc = "wait") ~> (mut.pc = "idle")

\* What does hold: as long as no sink blocks, every sink of the set is called
\* and a pending AddTransport or RemoveTransport completes.
C27_ProgressUnlessBlocked ==
    /\ \A tx \in Sinks :
          (pub.pc = "loop" /\ tx \in SetOf(transports)) ~>
              (tx \in SetOf(pub.calls) \/ pub.pc = "blocked")
    /\ (mut.pc = "wait") ~> (mut.pc = "idle" \/ pub.pc = "blocked")

\* ---- C28
\* ParseBaseMsg has returned for bytes that are a JSON object
Parsed == codec.pc = "parsed" /\ ~codec.raw.bad
\* the value the object has for a key, the zero value if it has none
RawField(k) == IF k \in DOMAIN codec.raw.obj THEN codec.raw.obj[k] ELSE Zero(k)
\* the decode table, in its order
DecodeTable ==
    << [word |-> "enter", shape |-> "EnterMsg"],
       [word |-> "leave", shape |-> "LeaveMsg"],
       [word |-> "user-changed", shape |-> "UserChangedMsg"],
       [word |-> "member-changed", shape |-> "MemberChangedMsg"],
       [word |-> "subscribe", shape |-> "SubscribeMsg"],
       [word |-> "unsubscribe", shape |-> "SubscribeMsg"],
       [word |-> "typing", shape |-> "TypingMsg"],
       [word |-> "conn-state", shape |-> "ConnMsg"],
       [word |-> "cmd", shape |-> "CmdMsg"] >>
\* the entries of the table the type tag is of
TableMatch(t) == {i \in 1..Len(DecodeTable) : IsType(t, <<DecodeTable[i].word>>)}
\* the message returned has the shape and the fields of the object for its keys
Returned(shape, keys) ==
    /\ codec.out.msg.shape = shape
    /\ DOMAIN codec.out.msg.f = keys
    /\ \A k \in keys : codec.out.msg.f[k] = RawField(k)

\* C28: for a type tag that is of no entry of the decode table, ParseBaseMsg
\* returns the ChatMsg when type, network id and one of destination id and
\* from id are set; a NetMsg when type and network id are set and neither
\* destination id nor from id; a BaseMsg when the type is set and the network
\* id is empty; the error 'not a valid message' when the type is empty.
C28_DefaultRules ==
    (Parsed /\ TableMatch(RawField("type")) = {}) =>
        LET t == RawField("type")
            n == RawField("net")
            d == RawField("dest")
            f == RawField("from")
        IN  /\ (t # <<>> /\ n # "" /\ (d # "" \/ f # "")) =>
                  (codec.out.err = "" /\ Returned("ChatMsg", {"type", "id", "net", "dest", "from"}))
            /\ (t # <<>> /\ n # "" /\ d = "" /\ f = "") =>
                  (codec.out.err = "" /\ Returned("NetMsg", {"type", "id", "net"}))
            /\ (t # <<>> /\ n = "") =>
                  (codec.out.err = "" /\ Returned("BaseMsg", {"type", "id"}))
            /\ t = <<>> => codec.out.err = "not a valid message"

C28_Witness ==
    /\ Parsed
    /\ RawField("type") = <<"cmd", "x">>
    /\ RawField("net") = "v" /\ RawField("dest") = "" /\ RawField("from") = ""
    /\ RawField("cmd") = "v"
    /\ codec.out.err = "" /\ codec.out.msg.shape = "NetMsg"

C28_WitnessBase ==
    /\ Parsed
    /\ RawField("type") = <<"msg", "/", "x">>
    /\ RawField("net") = "" /\ RawField("dest") = "v"
    /\ codec.out.err = "" /\ codec.out.msg.shape = "BaseMsg"

\* ---- C29
\* the validity rule of a shape, read off the object
ValidRaw(shape) ==
    /\ RawField("type") # <<>>
    /\ IF shape = "CmdMsg" THEN RawField("cmd") # ""
       ELSE IF shape \in {"UserChangedMsg", "ConnMsg"} THEN RawField("net") # ""
       ELSE RawField("net") # "" /\ (RawField("dest") # "" \/ RawField("from") # "")

\* C29: when the type tag is of an entry of the decode table, ParseBaseMsg
\* decodes the object into the shape of the first such entry and validates
\* it: a value that fails the validity rule of that shape gives the error
\* 'not a valid message', not a value of a less specific shape and not a
\* success.
C29_TableReparse ==
    (Parsed /\ TableMatch(RawField("type")) # {}) =>
        LET e == DecodeTable[Min(TableMatch(RawField("type")))]
        IN  /\ Returned(e.shape, Keys(e.shape))
            /\ codec.out.err = IF ValidRaw(e.shape) THEN "" ELSE "not a valid message"

C29_Witness ==
    /\ Parsed
    /\ RawField("type") = <<"enter", "/", "x">>
    /\ RawField("net") = "v" /\ RawField("dest") = "" /\ RawField("from") = ""
    /\ codec.out.err = "not a valid message"
    /\ codec.out.msg.shape = "EnterMsg"

\* ---- C30
\* the message ParseBaseMsg returned is the one that was encoded
SameMessage ==
    /\ codec.out.err = ""
    /\ codec.out.msg.shape = codec.msg.shape
    /\ DOMAIN codec.out.msg.f = DOMAIN codec.msg.f
    /\ \A k \in DOMAIN codec.msg.f : codec.out.msg.f[k] = codec.msg.f[k]

\* C30: a message value of any shape that is valid by the rule of its shape,
\* with any type tag, is returned by ParseBaseMsg from its encoding, with the
\* same shape and the same fields.
C30_RoundTrip ==
    (codec.pc = "parsed" /\ codec.msg.shape # "" /\ IsMsg(codec.msg)) => SameMessage

\* What does hold: the round trip of a valid message whose type tag is the
\* one of its shape (a tag of no table entry for BaseMsg, NetMsg and ChatMsg).
C30_RoundTripOwnTag ==
    (/\ codec.pc = "parsed" /\ codec.msg.shape # "" /\ IsMsg(codec.msg)
     /\ SwitchShape(codec.msg.f.type) =
           IF codec.msg.shape \in {"BaseMsg", "NetMsg", "ChatMsg"} THEN ""
           ELSE codec.msg.shape) => SameMessage

\* ---- C35
\* C35: Service.Close passes a session of its second snapshot only when the
\* session has completed, and closes done only after it has passed them all;
\* its waiting changes no session, so while one of them has not completed,
\* Close does not return and done stays open.
C35_CloseWaitsForSessions ==
    [][\A p \in Procs :
        /\ (loc[p].pc = "close_snap2" /\ StepOf(p)) =>
              /\ loc'[p].snap = clients
              /\ loc'[p].pc = IF clients = <<>> THEN "close_done" ELSE "close_wait"
        /\ (loc[p].pc = "close_wait" /\ StepOf(p)) =>
              /\ ClientClosed(Head(loc[p].snap))
              /\ loc'[p].snap = Tail(loc[p].snap)
              /\ loc'[p].pc = "close_done" <=> Tail(loc[p].snap) = <<>>
              /\ loc'[p].pc \in {"close_done", "close_wait"}
        /\ (loc[p].pc \in {"close_snap2", "close_wait", "close_done"} /\ StepOf(p)) =>
              sess' = sess
        /\ (done' /\ ~done) => \E q \in Procs : loc[q].pc = "close_done" /\ StepOf(q)]_vars

C35_Witness ==
    \E p \in Observed : \E c \in Clients :
        /\ loc[p].pc = "close_wait" /\ Head(loc[p].snap) = c
        /\ sess[c].st = "closing" /\ <<"Close", c>> \in loc[p].calls
        /\ closed = 1 /\ ~done

C35_WitnessDone ==
    \E p \in Observed : \E c \in Clients :
        /\ Ret(p, "Close") /\ loc[p].res = "ok" /\ done
        /\ <<"Close", c>> \in loc[p].calls /\ ClientClosed(c) /\ c \in Registered

StartPending(c) == \E q \in Procs : loc[q].pc = "login_start" /\ loc[q].cur = c
\* a Service.Close (in progress, or the last call of its process) has invoked Close() on c
ClosedByClose(c) ==
    \E q \in Procs : loc[q].op.name = "Close" /\ <<"Close", c>> \in loc[q].calls

\* C37: Service.Close does not invoke Close() on a session whose Start has
\* not been invoked yet by the Login that registered it, and Login does not
\* invoke Start on a session that Service.Close has closed.
C37_NoCloseBeforeStart ==
    [][\A p \in Procs :
        /\ (loc[p].pc = "close_loop" /\ StepOf(p)) => ~StartPending(Head(loc[p].snap))
        /\ (loc[p].pc = "login_start" /\ StepOf(p)) => ~ClosedByClose(loc[p].cur)]_vars

\* ---- C38
\* C38: Logout with the empty target finds no session: it returns the
\* not-found error and invokes Logout on no session, also when a registered
\* session has no connection.
C38_EmptyLogoutTarget ==
    [][\A p \in Procs :
        (/\ loc[p].pc = "logout_find" /\ StepOf(p)
         /\ loc[p].op.name = "Logout" /\ Target(loc[p]) = "") =>
            /\ loc'[p].pc = "idle"
            /\ p \in Observed => (loc'[p].res = "ID not found" /\ loc'[p].calls = {})]_vars

\* ---- C40
\* the events of a sequence of published events
EventsOf(pubs) == {pubs[i] : i \in 1..Len(pubs)}
\* what the registry and the provider have published
PublishedEvents ==
    UNION ({EventsOf(loc[p].pubs) : p \in Procs} \cup {EventsOf(cinfo[c].priv) : c \in Conns})

\* C40: every event the provider and the registry publish themselves (the
\* provider-auth confirmation, the ping echo, the error events) has a type
\* tag that is not empty.
C40_PublishedTyped == \A e \in PublishedEvents : e.type # ""

\* What does hold: every published event other than the provider-auth
\* confirmation has a type tag.
C40_TypedButAuth == \A e \in PublishedEvents \ {AuthEvent} : e.type # ""
\* ---- C33
\* C33: for all strings T and P, IsType(T, P) is true exactly when T = P or T
\* starts with P followed by "/".
C33_IsTypeIff ==
    call.fn = "IsType" =>
        LET T == call.msgType
            P == call.part
        IN  call.res <=> \/ T = P
                         \/ /\ Len(T) >= Len(P) + 1
                            /\ SubSeq(T, 1, Len(P) + 1) = P \o <<"/">>

\* a proper prefix followed by the separator is accepted
C33_Witness ==
    /\ call.fn = "IsType" /\ call.res
    /\ call.part = <<"a">> /\ call.msgType = <<"a", "/", "a">>

\* a prefix not followed by the separator is refused
C33_WitnessNot ==
    /\ call.fn = "IsType" /\ ~call.res
    /\ call.part = <<"a">> /\ call.msgType = <<"a", "a">>

\* ---- C34
\* C34: within a run of MaxRun successive MakeID calls of one process, with the
\* clock advancing by any amount between calls, no two calls with the same
\* reqID return the same string; and an ID made with a non-empty reqID starts
\* with reqID followed by "@".
C34_UniqueIDs ==
    /\ \A i, j \in 1..Len(mk.made) :
          (i # j /\ mk.made[i].reqID = mk.made[j].reqID) => mk.made[i].id # mk.made[j].id
    /\ \A i \in 1..Len(mk.made) :
          LET r == mk.made[i].reqID
          IN  r # <<>> => /\ Len(mk.made[i].id) > Len(r)
                          /\ SubSeq(mk.made[i].id, 1, Len(r) + 1) = r \o <<"@">>

\* what does hold: the calls made within one second of the clock return
\* different strings, and the reqID prefix is always there
C34_UniqueSameSecond ==
    /\ \A i, j \in 1..Len(mk.made) :
          (i # j /\ mk.made[i].reqID = mk.made[j].reqID
                 /\ mk.made[i].unix = mk.made[j].unix)
             => mk.made[i].id # mk.made[j].id
    /\ \A i \in 1..Len(mk.made) :
          LET r == mk.made[i].reqID
          IN  r # <<>> => /\ Len(mk.made[i].id) > Len(r)
                          /\ SubSeq(mk.made[i].id, 1, Len(r) + 1) = r \o <<"@">>

\* ---- C31
\* the registered entries whose path is a prefix of path
PrefixesOf(path) == {e \in ws.handlers : HasPrefix(path, e.hpath)}

\* C31: FindHandler returns the handler of the longest registered path that is
\* a prefix of the requested path, and no handler when none is; the path of a
\* StopServeURL is not registered afterwards, and a lookup of it finds a
\* handler only when another registered path is a prefix of it.
C31_LongestPrefix ==
    /\ ws.op.name = "find" =>
          IF PrefixesOf(ws.op.path) = {} THEN ws.found = 0
          ELSE \E e \in PrefixesOf(ws.op.path) :
                  /\ ws.found = e.handler
                  /\ \A f \in PrefixesOf(ws.op.path) : Len(f.hpath) <= Len(e.hpath)
    /\ ws.op.name = "stop" =>
          /\ \A e \in ws.handlers : e.hpath # ws.op.path
          /\ \A order \in RangeOrders(ws.handlers) :
                mymuxFindHandler(order, ws.op.path) # 0 =>
                    \E e \in ws.handlers : e.hpath # ws.op.path /\ HasPrefix(ws.op.path, e.hpath)

\* a lookup with two registered prefixes of different handlers
C31_Witness ==
    /\ ws.op.name = "find"
    /\ \E e, f \in PrefixesOf(ws.op.path) :
          Len(e.hpath) < Len(f.hpath) /\ e.handler # f.handler /\ ws.found = f.handler

\* a lookup nothing registered is a prefix of, with paths registered
C31_WitnessNone ==
    ws.op.name = "find" /\ ws.handlers # {} /\ PrefixesOf(ws.op.path) = {} /\ ws.found = 0

\* a path was stopped while a shorter path stays registered
C31_WitnessStop ==
    ws.op.name = "stop" /\ PrefixesOf(ws.op.path) # {}

\* ---- C32
\* C32: after any sequence of ServeURL calls that returned no error,
\* StopServeURL calls and Close calls, the listener is open exactly when at
\* least one path is registered.
C32_ListenerIffRegistered ==
    (ws.pc = "idle" /\ ~ws.failed) => (ws.lis # "none" <=> ws.handlers # {})

\* what does hold: while a path is registered the listener is open
C32_RegisteredHasListener ==
    (ws.pc = "idle" /\ ~ws.failed) => (ws.handlers # {} => ws.lis # "none")

\* ---- C39
\* C39: a ServeURL call that returns an error leaves the registered paths as
\* they were, and no path is registered while no listener is open for it.
C39_FailedServeURLNoChange ==
    [][/\ (ws'.op.name = "serve" /\ ws'.res.err /\ ws' # ws) => ws'.handlers = ws.handlers
       /\ (ws'.pc = "idle" /\ ws'.handlers # {}) => ws'.lis # "none"]_vars

====
